---- MODULE Spec2Model ----
(***************************************************************************)
(* Model of the model-catalog health tracker and its debounced persistence *)
(* worker (framework/modelcatalog/provider_models_health.go).              *)
(*                                                                         *)
(* Wall-clock times are naturals; 0 is Go's zero time.Time (IsZero).  One  *)
(* wall-clock unit is 12h, so the 24h staleness threshold is 2 units.  The *)
(* debounce timer runs on the monotonic clock, in units of half a debounce *)
(* interval; the wall clock does not move within a debounce window.        *)
(***************************************************************************)
EXTENDS Integers, Sequences, FiniteSets, TLC

(* ------------------------------ bounds -------------------------------- *)
\* Wall-clock readings range over 1..MaxTime.
MaxTime == 4
\* Number of RecordProviderModelDiscoveryResult calls in one behaviour of the
\* health tracker alone.
MaxRecords == 3
\* Number of calls in one behaviour of the persistence worker with its callers.
MaxCalls == 2

\* The backing arrays a run allocates with its getter calls.
MaxCells == 8

(* ------------------------- program constants -------------------------- *)
\* DefaultProviderModelSnapshotStaleAfter (24h) in wall-clock units of 12h.
StaleAfter == 2
\* The debounce interval in monotonic ticks.
Debounce == 2

ProviderModelHealthUnknown == "unknown"
ProviderModelHealthHealthy == "healthy"
ProviderModelHealthStale == "stale"
ProviderModelHealthError == "error"
ProviderModelHealthDegraded == "degraded"

ProviderModelHealthStatus ==
  { ProviderModelHealthUnknown, ProviderModelHealthHealthy, ProviderModelHealthStale,
    ProviderModelHealthError, ProviderModelHealthDegraded }

ProviderModelSourceUnknown == "unknown"

(* ------------------------------ inputs -------------------------------- *)
\* Provider identifiers, listed in ascending lexicographic order.
ProviderOrder == <<"glm", "minimax">>
Providers == { ProviderOrder[i] : i \in 1..Len(ProviderOrder) }

\* A model id is a string, modelled as its sequence of tokens; "/" is the
\* provider-prefix delimiter.
IdGlm5 == <<"glm", "/", "glm-5">>
IdGlm47 == <<"glm", "/", "glm-4.7">>
IdBare == <<"glm-5">>
IdMinimax == <<"minimax", "/", "MiniMax-M2.5">>
\* The same model as IdGlm47 under a dated name.
IdGlm47Dated == <<"glm", "/", "glm-4.7", "-", "20250101">>
\* The trailing tokens that are a date.
DateTokens_Compact == {"20250101"}

DateTokens_Dashed == {"2024-08-06"}

DateTokens == {"20250101", "2024-08-06"}

\* *schemas.BifrostListModelsResponse: nil, or a value with its Data slice.
NilResponse == [isNil |-> TRUE, Data |-> <<>>]
Response(data) == [isNil |-> FALSE, Data |-> data]
Responses ==
  { NilResponse,
    Response(<<IdGlm5, IdGlm47, IdGlm5>>),
    Response(<<IdMinimax, IdBare, IdGlm5>>),
    Response(<<IdGlm47, IdGlm47Dated>>) }

\* *schemas.BifrostError: nil, or a value whose Error field is nil or an
\* ErrorField with a Message and an optional wrapped error (its Error() text).
NoError == [isNil |-> TRUE, hasField |-> FALSE, Message |-> "", hasWrapped |-> FALSE, Wrapped |-> ""]
BifrostError(hasField, msg, hasWrapped, wrapped) ==
  [isNil |-> FALSE, hasField |-> hasField, Message |-> msg,
   hasWrapped |-> hasWrapped, Wrapped |-> wrapped]
ErrMessage == BifrostError(TRUE, "provider list models failed", TRUE, "dial tcp: timeout")
ErrWrapped == BifrostError(TRUE, "", TRUE, "dial tcp: timeout")
ErrEmptyField == BifrostError(TRUE, "", FALSE, "")
ErrNoField == BifrostError(FALSE, "", FALSE, "")
DiscoveryErrors == { ErrMessage, ErrWrapped, ErrEmptyField, ErrNoField }

\* The built-in seed lists of the providers used here.
defaultProviderModels ==
  [p \in {"glm", "minimax"} |->
     IF p = "glm"
     THEN <<"glm-5", "glm-4.7", "glm-4.7x", "glm-4.7-flash", "glm-4.7-flashx", "glm-4.6",
            "glm-4.6v", "glm-4.6v-flash", "glm-4.5", "glm-4.5-air", "glm-4.5-airx",
            "glm-z1-air", "glm-z1-airx", "glm-z1-flash", "glm-z1-flashx",
            "glm-z1-thinking", "glm-z1-rumination">>
     ELSE <<"MiniMax-M2.5", "MiniMax-M2", "MiniMax-M2.1", "MiniMax-M2.5-lightning",
            "MiniMax-M2.1-lightning", "speech-2.6-hd", "speech-2.6-turbo",
            "speech-02-hd", "speech-02-turbo">>]

(* ------------------------------- state -------------------------------- *)
VARIABLES
  \* ModelCatalog fields (Go maps are functions on the set of their keys)
  modelPool, unfilteredModelPool, providerModelSnapshots,
  providerModelSources, unfilteredProviderModelSources,
  providerModelHealth,
  configStore,        \* TRUE iff mc.configStore implements providerModelHealthStore
  persistCallback,    \* TRUE iff mc.providerModelHealthPersistCallback != nil
  persistSignal,      \* "nil", or the capacity-1 channel: "empty" | "full"
  ctxDone, doneClosed,\* the worker's stop conditions
  \* environment
  now,                \* the wall clock
  stored,             \* the durable store's health blob (last successful write)
  pricingData,        \* mc.pricingData: the entries of the pricing dataset
  snapshotStore,      \* the model names this process has written to the
                      \* store, by provider (ReplaceProviderModelNames)
  mem,                \* the backing arrays of the model lists, and which
                      \* array each list of the catalog and of a caller uses
  \* callers of RecordProviderModelDiscoveryResult: position and, for a
  \* synchronous flush, the payload read
  mpc, mflight,
  \* providerModelHealthPersistWorker locals; inflight is the payload of its
  \* latest flush
  wpc, pending, timer, timerC, inflight,
  \* history (not program state)
  ver, hist, callLog, flushLog, clk,
  \* inputs and results of pure functions
  probe,
  \* which of the two start-up loads have run
  hydrated,
  \* mc.mu, and the locals of the reader and of the callers while they run
  \* step by step under it
  mu, rd, mloc

catalogPools ==
  <<modelPool, unfilteredModelPool, providerModelSnapshots,
    providerModelSources, unfilteredProviderModelSources>>
catalogConfig == <<configStore, persistCallback, pricingData, snapshotStore, mem>>
stopVars == <<ctxDone, doneClosed>>
workerVars == <<wpc, pending, timer, timerC, inflight>>
historyVars == <<ver, hist, callLog, flushLog, clk>>
lockVars == <<mu, rd, mloc>>
vars ==
  <<modelPool, unfilteredModelPool, providerModelSnapshots,
    providerModelSources, unfilteredProviderModelSources,
    providerModelHealth, configStore, persistCallback, persistSignal,
    ctxDone, doneClosed, now, stored, mpc, mflight,
    wpc, pending, timer, timerC, inflight,
    ver, hist, callLog, flushLog, clk, probe, hydrated, mu, rd, mloc,
    pricingData, snapshotStore, mem>>

(* --------------------------- health state ----------------------------- *)
\* providerDiscoveryState{} and providerModelHealthState{} zero values.
ZeroDiscoveryState ==
  [LastAttemptAt |-> 0, LastSuccessAt |-> 0, LastErrorAt |-> 0,
   LastError |-> "", LastModelsCount |-> 0]
ZeroHealthState ==
  [Filtered |-> ZeroDiscoveryState, Unfiltered |-> ZeroDiscoveryState,
   LastSnapshotUpdated |-> 0]

\* Reading a Go map: the zero value when the key is absent.
MapGet(m, k, zero) == IF k \in DOMAIN m THEN m[k] ELSE zero
\* Writing a Go map: the key is added when absent.
MapPut(m, k, v) == [x \in DOMAIN m \cup {k} |-> IF x = k THEN v ELSE m[x]]
EmptyMap == [x \in {} |-> 0]

HealthOf(provider) == MapGet(providerModelHealth, provider, ZeroHealthState)
VariantOf(state, unfiltered) == IF unfiltered THEN state.Unfiltered ELSE state.Filtered

\* schemas.ParseModelString: split on the first "/"; no delimiter gives the
\* default provider and the whole string.
RECURSIVE IndexOfSlash(_, _)
IndexOfSlash(s, i) ==
  IF i > Len(s) THEN 0
  ELSE IF s[i] = "/" THEN i
  ELSE IndexOfSlash(s, i + 1)

ParseModelString(model, defaultProvider) ==
  LET k == IndexOfSlash(model, 1) IN
  IF k = 0
  THEN [provider |-> <<defaultProvider>>, model |-> model]
  ELSE [provider |-> SubSeq(model, 1, k - 1), model |-> SubSeq(model, k + 1, Len(model))]

\* mc.baseModelIndex of a catalog built with no index.
baseModelIndex == EmptyMap

\* GetBaseModelName of a catalog with the given index: the name after the
\* provider prefix, looked up in the index; when it is not there, the name
\* without a trailing date.
GetBaseModelNameIn(index, model) ==
  LET k == IndexOfSlash(model, 1)
      working == IF k = 0 THEN model ELSE SubSeq(model, k + 1, Len(model))
      n == Len(working)
  IN IF n = 0 THEN <<>>
     ELSE IF working \in DOMAIN index THEN index[working]
     ELSE IF n >= 3 /\ working[n - 1] = "-" /\ working[n] \in DateTokens
     THEN SubSeq(working, 1, n - 2)
     ELSE working

GetBaseModelName(model) == GetBaseModelNameIn(baseModelIndex, model)

\* IsSameModel: equal inputs, or equal base names.
IsSameModelIn(index, a, b) ==
  a = b \/ GetBaseModelNameIn(index, a) = GetBaseModelNameIn(index, b)

\* countProviderModelsInResponse: the loop over modelData.Data, carrying
\* (count, seenModels).
RECURSIVE CountLoop(_, _, _, _, _)
CountLoop(provider, data, i, count, seenModels) ==
  IF i > Len(data) THEN count
  ELSE LET parsed == ParseModelString(data[i], provider) IN
       IF parsed.provider # <<provider>>
       THEN CountLoop(provider, data, i + 1, count, seenModels)
       ELSE IF parsed.model \in seenModels
       THEN CountLoop(provider, data, i + 1, count, seenModels)
       ELSE CountLoop(provider, data, i + 1, count + 1, seenModels \cup {parsed.model})

countProviderModelsInResponse(provider, modelData) ==
  IF modelData.isNil \/ Len(modelData.Data) = 0 THEN 0
  ELSE CountLoop(provider, modelData.Data, 1, 0, {})

extractDiscoveryErrorMessage(discoveryErr) ==
  IF discoveryErr.isNil THEN ""
  ELSE IF discoveryErr.hasField /\ discoveryErr.Message # "" THEN discoveryErr.Message
  ELSE IF discoveryErr.hasField /\ discoveryErr.hasWrapped THEN discoveryErr.Wrapped
  ELSE "model discovery failed"

\* The locked section of RecordProviderModelDiscoveryResult applied to the
\* target variant's state.
RecordTarget_CountOnError(target, provider, modelData, discoveryErr, t) ==
  IF ~discoveryErr.isNil
  THEN [target EXCEPT !.LastAttemptAt = t, !.LastErrorAt = t,
                      !.LastError = extractDiscoveryErrorMessage(discoveryErr),
                      !.LastModelsCount = countProviderModelsInResponse(provider, modelData)]
  ELSE [target EXCEPT !.LastAttemptAt = t, !.LastSuccessAt = t, !.LastErrorAt = 0,
                      !.LastError = "",
                      !.LastModelsCount = countProviderModelsInResponse(provider, modelData)]

RecordTarget_NoErrorTime(target, provider, modelData, discoveryErr, t) ==
  IF ~discoveryErr.isNil
  THEN [target EXCEPT !.LastAttemptAt = t,
                      !.LastError = extractDiscoveryErrorMessage(discoveryErr)]
  ELSE [target EXCEPT !.LastAttemptAt = t, !.LastSuccessAt = t, !.LastErrorAt = 0,
                      !.LastError = "",
                      !.LastModelsCount = countProviderModelsInResponse(provider, modelData)]

RecordTarget_KeepError(target, provider, modelData, discoveryErr, t) ==
  IF ~discoveryErr.isNil
  THEN [target EXCEPT !.LastAttemptAt = t, !.LastErrorAt = t,
                      !.LastError = extractDiscoveryErrorMessage(discoveryErr)]
  ELSE [target EXCEPT !.LastAttemptAt = t, !.LastSuccessAt = t,
                      !.LastModelsCount = countProviderModelsInResponse(provider, modelData)]

RecordTarget(target, provider, modelData, discoveryErr, t) ==
  IF ~discoveryErr.isNil
  THEN [target EXCEPT !.LastAttemptAt = t, !.LastErrorAt = t,
                      !.LastError = extractDiscoveryErrorMessage(discoveryErr)]
  ELSE [target EXCEPT !.LastAttemptAt = t, !.LastSuccessAt = t, !.LastErrorAt = 0,
                      !.LastError = "",
                      !.LastModelsCount = countProviderModelsInResponse(provider, modelData)]

RecordState_BothVariants(state, provider, unfiltered, modelData, discoveryErr, t) ==
  [state EXCEPT !.Unfiltered = RecordTarget(state.Unfiltered, provider, modelData, discoveryErr, t),
                !.Filtered = RecordTarget(state.Filtered, provider, modelData, discoveryErr, t)]

RecordState(state, provider, unfiltered, modelData, discoveryErr, t) ==
  IF unfiltered
  THEN [state EXCEPT !.Unfiltered = RecordTarget(state.Unfiltered, provider, modelData, discoveryErr, t)]
  ELSE [state EXCEPT !.Filtered = RecordTarget(state.Filtered, provider, modelData, discoveryErr, t)]

(* -------------------------- status derivation ------------------------- *)
toProviderModelDiscoveryHealth_StaleAtThreshold(state, t) ==
  LET status ==
        IF state.LastAttemptAt = 0 THEN ProviderModelHealthUnknown
        ELSE IF state.LastErrorAt # 0
                /\ (state.LastSuccessAt = 0 \/ ~(state.LastErrorAt < state.LastSuccessAt))
        THEN ProviderModelHealthError
        ELSE IF state.LastSuccessAt = 0 THEN ProviderModelHealthUnknown
        ELSE IF t - state.LastSuccessAt >= StaleAfter THEN ProviderModelHealthStale
        ELSE ProviderModelHealthHealthy
  IN [Status |-> status, LastModelsCount |-> state.LastModelsCount,
      LastError |-> state.LastError, LastAttemptAt |-> state.LastAttemptAt,
      LastSuccessAt |-> state.LastSuccessAt, LastErrorAt |-> state.LastErrorAt]

toProviderModelDiscoveryHealth_ErrorStrictlyAfter(state, t) ==
  LET status ==
        IF state.LastAttemptAt = 0 THEN ProviderModelHealthUnknown
        ELSE IF state.LastErrorAt # 0
                /\ (state.LastSuccessAt = 0 \/ state.LastErrorAt > state.LastSuccessAt)
        THEN ProviderModelHealthError
        ELSE IF state.LastSuccessAt = 0 THEN ProviderModelHealthUnknown
        ELSE IF t - state.LastSuccessAt > StaleAfter THEN ProviderModelHealthStale
        ELSE ProviderModelHealthHealthy
  IN [Status |-> status, LastModelsCount |-> state.LastModelsCount,
      LastError |-> state.LastError, LastAttemptAt |-> state.LastAttemptAt,
      LastSuccessAt |-> state.LastSuccessAt, LastErrorAt |-> state.LastErrorAt]

\* The *time.Time fields of the result are nil exactly when the time is zero;
\* 0 stands for both.
toProviderModelDiscoveryHealth(state, t) ==
  LET status ==
        IF state.LastAttemptAt = 0 THEN ProviderModelHealthUnknown
        ELSE IF state.LastErrorAt # 0
                /\ (state.LastSuccessAt = 0 \/ ~(state.LastErrorAt < state.LastSuccessAt))
        THEN ProviderModelHealthError
        ELSE IF state.LastSuccessAt = 0 THEN ProviderModelHealthUnknown
        ELSE IF t - state.LastSuccessAt > StaleAfter THEN ProviderModelHealthStale
        ELSE ProviderModelHealthHealthy
  IN [Status |-> status, LastModelsCount |-> state.LastModelsCount,
      LastError |-> state.LastError, LastAttemptAt |-> state.LastAttemptAt,
      LastSuccessAt |-> state.LastSuccessAt, LastErrorAt |-> state.LastErrorAt]

mergeProviderHealthStatus_UnknownFirst(filtered, unfiltered) ==
  IF filtered = ProviderModelHealthError \/ unfiltered = ProviderModelHealthError
  THEN ProviderModelHealthError
  ELSE IF filtered = ProviderModelHealthUnknown /\ unfiltered = ProviderModelHealthUnknown
  THEN ProviderModelHealthUnknown
  ELSE IF filtered = ProviderModelHealthUnknown \/ unfiltered = ProviderModelHealthUnknown
  THEN ProviderModelHealthDegraded
  ELSE IF filtered = ProviderModelHealthStale \/ unfiltered = ProviderModelHealthStale
  THEN ProviderModelHealthStale
  ELSE ProviderModelHealthHealthy

mergeProviderHealthStatus(filtered, unfiltered) ==
  IF filtered = ProviderModelHealthError \/ unfiltered = ProviderModelHealthError
  THEN ProviderModelHealthError
  ELSE IF filtered = ProviderModelHealthStale \/ unfiltered = ProviderModelHealthStale
  THEN ProviderModelHealthStale
  ELSE IF filtered = ProviderModelHealthUnknown /\ unfiltered = ProviderModelHealthUnknown
  THEN ProviderModelHealthUnknown
  ELSE IF filtered = ProviderModelHealthUnknown \/ unfiltered = ProviderModelHealthUnknown
  THEN ProviderModelHealthDegraded
  ELSE ProviderModelHealthHealthy

(* ------------------------------ report -------------------------------- *)
\* providers[i] < providers[j] on identifiers: the order of ProviderOrder.
RECURSIVE RankFrom(_, _)
RankFrom(p, i) ==
  IF i > Len(ProviderOrder) THEN i
  ELSE IF ProviderOrder[i] = p THEN i
  ELSE RankFrom(p, i + 1)
ProviderLess(a, b) == RankFrom(a, 1) < RankFrom(b, 1)

\* sort.Slice(providers, less) on a set of distinct identifiers.
RECURSIVE SortProviders(_)
SortProviders(S) ==
  IF S = {} THEN <<>>
  ELSE LET least == CHOOSE x \in S : \A y \in S \ {x} : ProviderLess(x, y)
       IN <<least>> \o SortProviders(S \ {least})

ReportProviderSet_HealthOnly == DOMAIN providerModelHealth

ReportProviderSet ==
  DOMAIN modelPool \cup DOMAIN unfilteredModelPool \cup DOMAIN providerModelSnapshots
  \cup DOMAIN providerModelHealth \cup DOMAIN providerModelSources
  \cup DOMAIN unfilteredProviderModelSources

SourceOrUnknown_Raw(source) == source

SourceOrUnknown(source) == IF source = "" THEN ProviderModelSourceUnknown ELSE source

\* One element of report.Providers.
ReportItem(provider, t) ==
  LET state == HealthOf(provider)
      filteredDiscovery == toProviderModelDiscoveryHealth(state.Filtered, t)
      unfilteredDiscovery == toProviderModelDiscoveryHealth(state.Unfiltered, t)
  IN [Provider |-> provider,
      Status |-> mergeProviderHealthStatus(filteredDiscovery.Status, unfilteredDiscovery.Status),
      SnapshotModelCount |-> Len(MapGet(providerModelSnapshots, provider, <<>>)),
      FilteredModelCount |-> Len(MapGet(modelPool, provider, <<>>)),
      UnfilteredModelCount |-> Len(MapGet(unfilteredModelPool, provider, <<>>)),
      FilteredSource |-> SourceOrUnknown(MapGet(providerModelSources, provider, "")),
      UnfilteredSource |-> SourceOrUnknown(MapGet(unfilteredProviderModelSources, provider, "")),
      LastSnapshotUpdated |-> state.LastSnapshotUpdated,
      FilteredDiscovery |-> filteredDiscovery,
      UnfilteredDiscovery |-> unfilteredDiscovery]

CountStatus(items, status) == Cardinality({i \in DOMAIN items : items[i].Status = status})

ReportSummary(items) ==
  [TotalProviders |-> Len(items),
   HealthyProviders |-> CountStatus(items, ProviderModelHealthHealthy),
   StaleProviders |-> CountStatus(items, ProviderModelHealthStale),
   ErrorProviders |-> CountStatus(items, ProviderModelHealthError),
   DegradedProviders |-> CountStatus(items, ProviderModelHealthDegraded),
   UnknownProviders |-> CountStatus(items, ProviderModelHealthUnknown)]

ReportStatus_StaleFirst(summary) ==
  IF summary.TotalProviders = 0 THEN ProviderModelHealthUnknown
  ELSE IF summary.StaleProviders > 0 \/ summary.DegradedProviders > 0
  THEN ProviderModelHealthDegraded
  ELSE IF summary.ErrorProviders > 0 THEN ProviderModelHealthError
  ELSE IF summary.HealthyProviders > 0 THEN ProviderModelHealthHealthy
  ELSE ProviderModelHealthUnknown

ReportStatus_StaleAsStale(summary) ==
  IF summary.TotalProviders = 0 THEN ProviderModelHealthUnknown
  ELSE IF summary.ErrorProviders > 0 THEN ProviderModelHealthError
  ELSE IF summary.StaleProviders > 0 THEN ProviderModelHealthStale
  ELSE IF summary.DegradedProviders > 0 THEN ProviderModelHealthDegraded
  ELSE IF summary.HealthyProviders > 0 THEN ProviderModelHealthHealthy
  ELSE ProviderModelHealthUnknown

ReportStatus(summary) ==
  IF summary.TotalProviders = 0 THEN ProviderModelHealthUnknown
  ELSE IF summary.ErrorProviders > 0 THEN ProviderModelHealthError
  ELSE IF summary.StaleProviders > 0 \/ summary.DegradedProviders > 0
  THEN ProviderModelHealthDegraded
  ELSE IF summary.HealthyProviders > 0 THEN ProviderModelHealthHealthy
  ELSE ProviderModelHealthUnknown

\* GetProviderModelSnapshotHealthReport called when the wall clock reads t.
GetProviderModelSnapshotHealthReport(t) ==
  LET providers == SortProviders(ReportProviderSet)
      items == [i \in 1..Len(providers) |-> ReportItem(providers[i], t)]
      summary == ReportSummary(items)
  IN [Status |-> ReportStatus(summary), GeneratedAt |-> t,
      StaleAfterSeconds |-> StaleAfter, Summary |-> summary, Providers |-> items]

\* The providers slice filled by ranging over the provider set: the keys in
\* any order.
Orders(S) == {seq \in [1..Cardinality(S) -> S] : {seq[i] : i \in 1..Cardinality(S)} = S}

\* sort.Slice(providers, less).
RECURSIVE InsertSorted(_, _)
InsertSorted(sorted, x) ==
  IF sorted = <<>> THEN <<x>>
  ELSE IF ProviderLess(x, Head(sorted)) THEN <<x>> \o sorted
  ELSE <<Head(sorted)>> \o InsertSorted(Tail(sorted), x)

SortSlice_Unsorted(providers) == providers

RECURSIVE SortSlice(_)
SortSlice(providers) ==
  IF providers = <<>> THEN <<>>
  ELSE InsertSorted(SortSlice(Tail(providers)), Head(providers))

\* GetProviderModelSnapshotHealthReport at time t, the provider set having
\* been ranged over in the given order.
HealthReportFrom(order, t) ==
  LET providers == SortSlice(order)
      items == [i \in 1..Len(providers) |-> ReportItem(providers[i], t)]
      summary == ReportSummary(items)
  IN [Status |-> ReportStatus(summary), GeneratedAt |-> t,
      StaleAfterSeconds |-> StaleAfter, Summary |-> summary, Providers |-> items]

CatalogView ==
  [modelPool |-> modelPool, unfilteredModelPool |-> unfilteredModelPool,
   providerModelSnapshots |-> providerModelSnapshots,
   providerModelSources |-> providerModelSources,
   unfilteredProviderModelSources |-> unfilteredProviderModelSources,
   providerModelHealth |-> providerModelHealth]

(* --------------------------- persisted view --------------------------- *)
isPersistedProviderModelHealthStateEmpty(entry) ==
  ~ \/ entry.Filtered.LastAttemptAt # 0
    \/ entry.Filtered.LastSuccessAt # 0
    \/ entry.Filtered.LastErrorAt # 0
    \/ entry.Filtered.LastError # ""
    \/ entry.Filtered.LastModelsCount # 0
    \/ entry.Unfiltered.LastAttemptAt # 0
    \/ entry.Unfiltered.LastSuccessAt # 0
    \/ entry.Unfiltered.LastErrorAt # 0
    \/ entry.Unfiltered.LastError # ""
    \/ entry.Unfiltered.LastModelsCount # 0
    \/ entry.LastSnapshotUpdated # 0
    \/ entry.FilteredSource # ""
    \/ entry.UnfilteredSource # ""

\* The entry built for one provider from the three maps.
PersistedEntryOf(health, sources, usources, provider) ==
  [Filtered |-> MapGet(health, provider, ZeroHealthState).Filtered,
   Unfiltered |-> MapGet(health, provider, ZeroHealthState).Unfiltered,
   LastSnapshotUpdated |-> MapGet(health, provider, ZeroHealthState).LastSnapshotUpdated,
   FilteredSource |-> MapGet(sources, provider, ""),
   UnfilteredSource |-> MapGet(usources, provider, "")]

PersistedEntry(provider) ==
  PersistedEntryOf(providerModelHealth, providerModelSources,
                   unfilteredProviderModelSources, provider)

PersistedStateOf_KeepEmpty(health, sources, usources) ==
  LET providers == DOMAIN health \cup DOMAIN sources \cup DOMAIN usources
  IN [p \in providers |-> PersistedEntryOf(health, sources, usources, p)]

PersistedStateOf_HealthOnly(health, sources, usources) ==
  LET providers == DOMAIN health
      kept == {p \in providers :
                 ~isPersistedProviderModelHealthStateEmpty(
                    PersistedEntryOf(health, sources, usources, p))}
  IN [p \in kept |-> PersistedEntryOf(health, sources, usources, p)]

\* The body of getPersistedProviderModelHealthState on given maps.
PersistedStateOf(health, sources, usources) ==
  LET providers == DOMAIN health \cup DOMAIN sources \cup DOMAIN usources
      kept == {p \in providers :
                 ~isPersistedProviderModelHealthStateEmpty(
                    PersistedEntryOf(health, sources, usources, p))}
  IN [p \in kept |-> PersistedEntryOf(health, sources, usources, p)]

\* getPersistedProviderModelHealthState: built under the read lock, in one step.
getPersistedProviderModelHealthState ==
  PersistedStateOf(providerModelHealth, providerModelSources, unfilteredProviderModelSources)

(* ------------------------- the stored JSON blob ------------------------ *)
\* A JSON text is modelled by its parse: whether it is well-formed, and the
\* object it holds (a function from the keys present to their values).  A
\* time is written as an RFC 3339 text; the struct fields without a tag keep
\* their Go names; a source tag with omitempty is left out when it is "".
MarshalTime(t) == <<"rfc3339", t>>
UnmarshalTime(v) == v[2]

MarshalDiscovery(st) ==
  [LastAttemptAt |-> MarshalTime(st.LastAttemptAt),
   LastSuccessAt |-> MarshalTime(st.LastSuccessAt),
   LastErrorAt |-> MarshalTime(st.LastErrorAt),
   LastError |-> st.LastError,
   LastModelsCount |-> st.LastModelsCount]
UnmarshalDiscovery(obj) ==
  [LastAttemptAt |-> UnmarshalTime(obj.LastAttemptAt),
   LastSuccessAt |-> UnmarshalTime(obj.LastSuccessAt),
   LastErrorAt |-> UnmarshalTime(obj.LastErrorAt),
   LastError |-> obj.LastError,
   LastModelsCount |-> obj.LastModelsCount]

MarshalEntry(entry) ==
  LET keys == {"filtered", "unfiltered", "last_snapshot_updated"}
              \cup (IF entry.FilteredSource # "" THEN {"filtered_source"} ELSE {})
              \cup (IF entry.UnfilteredSource # "" THEN {"unfiltered_source"} ELSE {})
  IN [k \in keys |->
        CASE k = "filtered" -> MarshalDiscovery(entry.Filtered)
          [] k = "unfiltered" -> MarshalDiscovery(entry.Unfiltered)
          [] k = "last_snapshot_updated" -> MarshalTime(entry.LastSnapshotUpdated)
          [] k = "filtered_source" -> entry.FilteredSource
          [] k = "unfiltered_source" -> entry.UnfilteredSource]

\* A key absent from the object leaves the field at its zero value.
UnmarshalEntry(obj) ==
  [Filtered |-> IF "filtered" \in DOMAIN obj
                THEN UnmarshalDiscovery(obj["filtered"]) ELSE ZeroDiscoveryState,
   Unfiltered |-> IF "unfiltered" \in DOMAIN obj
                  THEN UnmarshalDiscovery(obj["unfiltered"]) ELSE ZeroDiscoveryState,
   LastSnapshotUpdated |-> IF "last_snapshot_updated" \in DOMAIN obj
                           THEN UnmarshalTime(obj["last_snapshot_updated"]) ELSE 0,
   FilteredSource |-> IF "filtered_source" \in DOMAIN obj THEN obj["filtered_source"] ELSE "",
   UnfilteredSource |-> IF "unfiltered_source" \in DOMAIN obj
                        THEN obj["unfiltered_source"] ELSE ""]

\* config.Value: the empty string, or a text that parses or does not.  A text
\* that does not parse may still hold entries a decoder has read before it
\* reports the error.
EmptyValue == [empty |-> TRUE, valid |-> TRUE, entries |-> EmptyMap]
Marshal(payload) ==
  [empty |-> FALSE, valid |-> TRUE, entries |-> [p \in DOMAIN payload |-> MarshalEntry(payload[p])]]
Malformed(value) == [value EXCEPT !.valid = FALSE]
\* sonic.Unmarshal into map[string]persistedProviderModelHealthState.
Unmarshal(value) ==
  [err |-> ~value.valid,
   persistedState |-> [p \in DOMAIN value.entries |-> UnmarshalEntry(value.entries[p])]]

shouldPersistProviderModelHealthState_Always == TRUE

shouldPersistProviderModelHealthState_StoreOnly == configStore

shouldPersistProviderModelHealthState == persistCallback \/ configStore

(* ------------------------------ callers ------------------------------- *)
Mutators == {"m1", "m2"}
Slots == Providers \X BOOLEAN

ZeroHist == [kind |-> "none", at |-> 0, err |-> NoError, succAt |-> 0]
HistAfter(h, discoveryErr, t) ==
  IF discoveryErr.isNil
  THEN [kind |-> "success", at |-> t, err |-> NoError, succAt |-> t]
  ELSE [kind |-> "error", at |-> t, err |-> discoveryErr, succAt |-> h.succAt]

\* RecordProviderModelDiscoveryResult, lines 113-133: the section under mc.mu.
\* With persistence disabled the call to persistProviderModelHealthState that
\* follows returns at once, and the caller is idle again.
RecordLocked(m, provider, unfiltered, modelData, discoveryErr) ==
  /\ mpc[m] = "idle"
  /\ ver < MaxRecords
  /\ providerModelHealth' =
       MapPut(providerModelHealth, provider,
              RecordState(HealthOf(provider), provider, unfiltered, modelData, discoveryErr, now))
  /\ mpc' = [mpc EXCEPT ![m] = IF shouldPersistProviderModelHealthState THEN "persist" ELSE "idle"]
  /\ ver' = ver + 1
  /\ hist' = [hist EXCEPT ![<<provider, unfiltered>>] = HistAfter(@, discoveryErr, now)]
  /\ callLog' = IF shouldPersistProviderModelHealthState
                THEN [callLog EXCEPT !.callVer[m] = ver + 1]
                ELSE [callLog EXCEPT !.retMax = ver + 1]
  /\ UNCHANGED <<catalogPools, catalogConfig, hydrated, lockVars, persistSignal, stopVars, now, stored,
                 mflight, workerVars, flushLog, clk, probe>>

\* time.Now(): the wall clock moves forward.
WallClockAdvance ==
  /\ now < MaxTime
  /\ now' = now + 1
  /\ UNCHANGED <<catalogPools, providerModelHealth, catalogConfig, hydrated, lockVars, persistSignal, stopVars,
                 stored, mpc, mflight, workerVars, historyVars, probe>>

(* ---------------------------- initial state --------------------------- *)
\* A payload built by a flush and the version of the state it was built
\* from; ended tells that the write (or callback) has returned.
NoPayload == [isSet |-> FALSE, ver |-> 0, payload |-> EmptyMap, ended |-> FALSE]
NoProbe == [kind |-> "none", state |-> ZeroDiscoveryState, t |-> 0,
            a |-> "", b |-> "", out |-> ""]
\* History of the calls: the version each caller's update produced, the
\* newest version among the calls that have returned, that value at the
\* moment the stop was requested, and whether a call's signal was dropped.
InitCallLog ==
  [callVer |-> [m \in Mutators |-> 0], retMax |-> 0, stopRet |-> 0, dropped |-> FALSE]
\* History of the flushes: how many final flushes were begun, whether a
\* signal was pending or queued when the stop was observed, the calls of the
\* current burst (a call returning a debounce interval or more after the
\* previous one begins a new burst), the flushes begun on a timer expiry
\* since the burst began, whether one of them came less than a debounce
\* interval after a call returned, whether a timer expiry was handled while a
\* dirty signal was queued, whether a call returned while a timer flush
\* was in progress, whether the latest store write failed ("failed", and
\* "signalled" once the worker has received a dirty signal after it), how
\* many times the callback has been invoked, whether the worker has
\* received a dirty signal while an expiry it had not handled was on
\* timer.C, and how many flushes the worker has begun.
InitFlushLog ==
  [finalCount |-> 0, stopHadWork |-> FALSE, burstCalls |-> 0,
   burst |-> 0, early |-> FALSE, raced |-> FALSE, duringFlush |-> FALSE,
   failed |-> "no", callbacks |-> 0, lateSignal |-> FALSE, flushes |-> 0]
\* Monotonic time, in ticks capped at Debounce, since the last call returned
\* and since the worker last received a dirty signal.
InitClk == [sinceCall |-> Debounce, sinceRecv |-> Debounce]
NilTimer == [created |-> FALSE, active |-> FALSE, left |-> 0, c |-> FALSE]
\* Neither loadProviderModelSnapshots nor loadProviderModelHealthState has run.
\* step counts the map writes loadProviderModelSnapshots has made when it
\* runs step by step (0 outside its locked section).
NotHydrated == [snapshots |-> FALSE, health |-> FALSE, outcome |-> "none", step |-> 0]
\* sync.RWMutex: the goroutine holding the write lock, and those holding the
\* read lock.
FreeMutex == [writer |-> "none", readers |-> {}]
\* A reader of the catalog: its position, what it reads, its time.Now(), the
\* provider slice, the items built so far, its latest result, and the maps
\* and the version of the state at the time it took the lock.
NoReport == [isSet |-> FALSE]
IdleReader ==
  [pc |-> "idle", kind |-> "none", t |-> 0, providers |-> <<>>, items |-> <<>>,
   report |-> NoReport, prev |-> NoReport, cat |-> <<>>, ver |-> 0, overlap |-> {}]
\* The locals of a caller of RecordProviderModelDiscoveryResult between
\* mc.mu.Lock() and mc.mu.Unlock(): provider, now and the state struct.
\* keys is the provider set of a payload being built.
NoLocals ==
  [provider |-> "", unfiltered |-> FALSE, err |-> NoError, t |-> 0,
   state |-> ZeroHealthState, keys |-> {}]

\* newTestCatalog: empty maps, no store and no callback.
\* The arrays at start: the built-in lists; no list of the catalog has one.
InitMem ==
  [heap |-> <<defaultProviderModels["glm"], defaultProviderModels["minimax"]>>,
   defaults |-> [p \in {"glm", "minimax"} |-> IF p = "glm" THEN 1 ELSE 2],
   snapshots |-> EmptyMap, pool |-> EmptyMap, upool |-> EmptyMap, returned |-> {}]

InitCatalog ==
  /\ modelPool = EmptyMap
  /\ unfilteredModelPool = EmptyMap
  /\ providerModelSnapshots = EmptyMap
  /\ providerModelSources = EmptyMap
  /\ unfilteredProviderModelSources = EmptyMap
  /\ providerModelHealth = EmptyMap
  /\ stored = EmptyValue
  /\ pricingData = {}
  /\ snapshotStore = EmptyMap
  /\ mem = InitMem
  /\ mpc = [m \in Mutators |-> "idle"]
  /\ mflight = [m \in Mutators |-> NoPayload]
  /\ ver = 0
  /\ hist = [s \in Slots |-> ZeroHist]
  /\ callLog = InitCallLog
  /\ flushLog = InitFlushLog
  /\ clk = InitClk
  /\ hydrated = NotHydrated
  /\ mu = FreeMutex
  /\ rd = IdleReader
  /\ mloc = [m \in Mutators |-> NoLocals]

InitNoWorker ==
  /\ persistSignal = "nil"
  /\ ctxDone = FALSE
  /\ doneClosed = FALSE
  /\ wpc = "none"
  /\ pending = FALSE
  /\ timer = NilTimer
  /\ timerC = FALSE
  /\ inflight = NoPayload

(* --------------- specification: recordings of one provider ------------ *)
\* Every response and error shape, both variants of one provider, no
\* persistence configured.
RecordInputs ==
  {<<d, NoError>> : d \in Responses}
  \cup {<<NilResponse, e>> : e \in DiscoveryErrors}
  \cup {<<Response(<<IdGlm5, IdGlm47, IdGlm5>>), ErrMessage>>}

InitRecord ==
  /\ InitCatalog
  /\ InitNoWorker
  /\ configStore = FALSE
  /\ persistCallback = FALSE
  /\ now = 1
  /\ probe = NoProbe

RecordAny ==
  \E unfiltered \in BOOLEAN, in \in RecordInputs :
    RecordLocked("m1", "glm", unfiltered, in[1], in[2])

NextRecord == RecordAny \/ WallClockAdvance

SpecRecord == InitRecord /\ [][NextRecord]_vars

(* ------------- specification: health of several providers ------------- *)
HealthInputs == { <<Response(<<IdGlm5, IdGlm47, IdGlm5>>), NoError>>, <<NilResponse, ErrMessage>> }

RecordHealth ==
  \E provider \in Providers, unfiltered \in BOOLEAN, in \in HealthInputs :
    RecordLocked("m1", provider, unfiltered, in[1], in[2])

NextHealth == RecordHealth \/ WallClockAdvance

SpecHealth == InitRecord /\ [][NextHealth]_vars

(* ----------------- specification: the pure functions ------------------ *)
\* Init draws the arguments, the actions apply the function to them.
DiscoveryStates ==
  [LastAttemptAt : 0..MaxTime, LastSuccessAt : 0..MaxTime, LastErrorAt : 0..MaxTime,
   LastError : {""}, LastModelsCount : {0}]

StatusProbes ==
  {[kind |-> "status", state |-> st, t |-> t, a |-> "", b |-> "", out |-> ""] :
     st \in DiscoveryStates, t \in 1..MaxTime}
MergeProbes ==
  {[kind |-> "merge", state |-> ZeroDiscoveryState, t |-> 0, a |-> a, b |-> b, out |-> ""] :
     a \in ProviderModelHealthStatus, b \in ProviderModelHealthStatus}

InitPure ==
  /\ InitCatalog
  /\ InitNoWorker
  /\ configStore = FALSE
  /\ persistCallback = FALSE
  /\ now = 1
  /\ probe \in StatusProbes \cup MergeProbes

ApplyStatus ==
  /\ probe.kind = "status"
  /\ probe.out = ""
  /\ probe' = [probe EXCEPT !.out = toProviderModelDiscoveryHealth(probe.state, probe.t).Status]
  /\ UNCHANGED <<catalogPools, providerModelHealth, catalogConfig, hydrated, lockVars, persistSignal, stopVars,
                 now, stored, mpc, mflight, workerVars, historyVars>>

ApplyMerge ==
  /\ probe.kind = "merge"
  /\ probe.out = ""
  /\ probe' = [probe EXCEPT !.out = mergeProviderHealthStatus(probe.a, probe.b)]
  /\ UNCHANGED <<catalogPools, providerModelHealth, catalogConfig, hydrated, lockVars, persistSignal, stopVars,
                 now, stored, mpc, mflight, workerVars, historyVars>>

NextPure == ApplyStatus \/ ApplyMerge

SpecPure == InitPure /\ [][NextPure]_vars

(* ------------------------ start-up hydration -------------------------- *)
ProviderModelSourcePersistedSnapshot == "persisted_snapshot"
ProviderModelSourceDefaultSeed == "default_seed"
ProviderModelSourceLiveDiscovery_AsSeed == "default_seed"

ProviderModelSourceLiveDiscovery == "live_discovery"

\* The maps after the loop of loadProviderModelSnapshots over the snapshots
\* read from the store: a provider with no model is skipped.
SnapshotHydration_PoolsOnly(pools, snapshots) ==
  LET kept == {p \in DOMAIN snapshots : Len(snapshots[p]) # 0}
      Put(m, v) == [p \in DOMAIN m \cup kept |-> IF p \in kept THEN v[p] ELSE m[p]]
  IN [modelPool |-> Put(pools.modelPool, snapshots),
      unfilteredModelPool |-> Put(pools.unfilteredModelPool, snapshots),
      providerModelSnapshots |-> pools.providerModelSnapshots,
      providerModelSources |-> pools.providerModelSources,
      unfilteredProviderModelSources |-> pools.unfilteredProviderModelSources]

SnapshotHydration(pools, snapshots) ==
  LET kept == {p \in DOMAIN snapshots : Len(snapshots[p]) # 0}
      tag == [p \in kept |-> ProviderModelSourcePersistedSnapshot]
      Put(m, v) == [p \in DOMAIN m \cup kept |-> IF p \in kept THEN v[p] ELSE m[p]]
  IN [modelPool |-> Put(pools.modelPool, snapshots),
      unfilteredModelPool |-> Put(pools.unfilteredModelPool, snapshots),
      providerModelSnapshots |-> Put(pools.providerModelSnapshots, snapshots),
      providerModelSources |-> Put(pools.providerModelSources, tag),
      unfilteredProviderModelSources |-> Put(pools.unfilteredProviderModelSources, tag)]

CatalogPoolsNow ==
  [modelPool |-> modelPool, unfilteredModelPool |-> unfilteredModelPool,
   providerModelSnapshots |-> providerModelSnapshots,
   providerModelSources |-> providerModelSources,
   unfilteredProviderModelSources |-> unfilteredProviderModelSources]

\* loadProviderModelSnapshots: nothing without a store or when the read
\* fails; else the loop, under mc.mu.
loadProviderModelSnapshots(result) ==
  LET after == IF ~configStore \/ result.err THEN CatalogPoolsNow
               ELSE SnapshotHydration(CatalogPoolsNow, result.snapshots) IN
  /\ ~hydrated.snapshots
  /\ ver = 0
  /\ hydrated' = [hydrated EXCEPT !.snapshots = TRUE]
  /\ modelPool' = after.modelPool
  /\ unfilteredModelPool' = after.unfilteredModelPool
  /\ providerModelSnapshots' = after.providerModelSnapshots
  /\ providerModelSources' = after.providerModelSources
  /\ unfilteredProviderModelSources' = after.unfilteredProviderModelSources
  /\ UNCHANGED <<providerModelHealth, catalogConfig, lockVars, persistSignal, stopVars, now,
                 stored, mpc, mflight, workerVars, historyVars>>

\* The three maps after loadProviderModelHealthState has handled the result of
\* store.GetConfig.
HealthHydration_ApplyMalformed(health, sources, usources, result) ==
  LET same == [health |-> health, sources |-> sources, usources |-> usources] IN
  IF result.kind # "ok" \/ result.value.empty THEN same
  ELSE LET ps == Unmarshal(result.value).persistedState
           fs == {p \in DOMAIN ps : ps[p].FilteredSource # ""}
           us == {p \in DOMAIN ps : ps[p].UnfilteredSource # ""}
       IN [health |-> [p \in DOMAIN health \cup DOMAIN ps |->
                         IF p \in DOMAIN ps
                         THEN [Filtered |-> ps[p].Filtered, Unfiltered |-> ps[p].Unfiltered,
                               LastSnapshotUpdated |-> ps[p].LastSnapshotUpdated]
                         ELSE health[p]],
           sources |-> [p \in DOMAIN sources \cup fs |->
                          IF p \in fs THEN ps[p].FilteredSource ELSE sources[p]],
           usources |-> [p \in DOMAIN usources \cup us |->
                           IF p \in us THEN ps[p].UnfilteredSource ELSE usources[p]]]

HealthHydration_FilteredSourceOnly(health, sources, usources, result) ==
  LET same == [health |-> health, sources |-> sources, usources |-> usources] IN
  IF result.kind # "ok" \/ result.value.empty THEN same
  ELSE LET u == Unmarshal(result.value) IN
       IF u.err THEN same
       ELSE LET ps == u.persistedState
                fs == {p \in DOMAIN ps : ps[p].FilteredSource # ""}
            IN [health |-> [p \in DOMAIN health \cup DOMAIN ps |->
                              IF p \in DOMAIN ps
                              THEN [Filtered |-> ps[p].Filtered, Unfiltered |-> ps[p].Unfiltered,
                                    LastSnapshotUpdated |-> ps[p].LastSnapshotUpdated]
                              ELSE health[p]],
                sources |-> [p \in DOMAIN sources \cup fs |->
                               IF p \in fs THEN ps[p].FilteredSource ELSE sources[p]],
                usources |-> usources]

HealthHydration(health, sources, usources, result) ==
  LET same == [health |-> health, sources |-> sources, usources |-> usources] IN
  IF result.kind # "ok" \/ result.value.empty THEN same
  ELSE LET u == Unmarshal(result.value) IN
       IF u.err THEN same
       ELSE LET ps == u.persistedState
                fs == {p \in DOMAIN ps : ps[p].FilteredSource # ""}
                us == {p \in DOMAIN ps : ps[p].UnfilteredSource # ""}
            IN [health |-> [p \in DOMAIN health \cup DOMAIN ps |->
                              IF p \in DOMAIN ps
                              THEN [Filtered |-> ps[p].Filtered, Unfiltered |-> ps[p].Unfiltered,
                                    LastSnapshotUpdated |-> ps[p].LastSnapshotUpdated]
                              ELSE health[p]],
                sources |-> [p \in DOMAIN sources \cup fs |->
                               IF p \in fs THEN ps[p].FilteredSource ELSE sources[p]],
                usources |-> [p \in DOMAIN usources \cup us |->
                                IF p \in us THEN ps[p].UnfilteredSource ELSE usources[p]]]

\* How the load went: no usable value (a failed read, no key, a nil config,
\* an empty value), a text that does not parse, or a loaded text.
ResultLabel(result) ==
  IF result.kind # "ok" \/ result.value.empty THEN "nothing"
  ELSE IF ~result.value.valid THEN "malformed"
  ELSE "loaded"

\* loadProviderModelHealthState: nothing without a store; else GetConfig,
\* Unmarshal and the loop under mc.mu.
loadProviderModelHealthState(result) ==
  LET same == [health |-> providerModelHealth, sources |-> providerModelSources,
               usources |-> unfilteredProviderModelSources]
      after == IF ~configStore THEN same
               ELSE HealthHydration(providerModelHealth, providerModelSources,
                                    unfilteredProviderModelSources, result) IN
  /\ ~hydrated.health
  /\ ver = 0
  /\ hydrated' = [hydrated EXCEPT !.health = TRUE, !.outcome = ResultLabel(result)]
  /\ providerModelHealth' = after.health
  /\ providerModelSources' = after.sources
  /\ unfilteredProviderModelSources' = after.usources
  /\ UNCHANGED <<modelPool, unfilteredModelPool, providerModelSnapshots, catalogConfig,
                 lockVars, persistSignal, stopVars, now, stored, mpc, mflight, workerVars,
                 historyVars, probe>>

\* updateProviderModelHealthSnapshotUpdatedAtLocked(provider, now), called
\* with mc.mu held; it is one more mutation of the state.
updateProviderModelHealthSnapshotUpdatedAtLocked(provider) ==
  /\ providerModelHealth' =
       MapPut(providerModelHealth, provider,
              [HealthOf(provider) EXCEPT !.LastSnapshotUpdated = now])
  /\ ver' = ver + 1
  /\ UNCHANGED <<catalogPools, catalogConfig, hydrated, lockVars, persistSignal, stopVars, now,
                 stored, mpc, mflight, workerVars, hist, callLog, flushLog, clk, probe>>

(* ======================= claims: health tracker ======================= *)
\* The message the error carries: its message, else the wrapped error's text,
\* else the generic one.
ClaimedErrorMessage(e) ==
  CASE e.hasField /\ e.Message # "" -> e.Message
    [] e.hasField /\ e.Message = "" /\ e.hasWrapped -> e.Wrapped
    [] OTHER -> "model discovery failed"

\* The distinct model names among the entries whose parsed provider is the
\* recorded provider.
ClaimedCount(provider, modelData) ==
  IF modelData.isNil THEN 0
  ELSE Cardinality({ParseModelString(modelData.Data[i], provider).model :
                      i \in {j \in 1..Len(modelData.Data) :
                               ParseModelString(modelData.Data[j], provider).provider = <<provider>>}})

\* The distinct base models among the entries whose parsed provider is the
\* recorded provider.
ClaimedBaseModelCount(provider, modelData) ==
  IF modelData.isNil THEN 0
  ELSE Cardinality({GetBaseModelName(modelData.Data[i]) :
                      i \in {j \in 1..Len(modelData.Data) :
                               ParseModelString(modelData.Data[j], provider).provider = <<provider>>}})

\* C14: a success recording sets LastModelsCount to the number of distinct
\* models, after identity normalization, among the entries of the response
\* whose parsed provider is the recorded provider (0 for a nil or empty
\* response).
C14_DistinctModelCount ==
  [][\A unfiltered \in BOOLEAN, in \in RecordInputs :
       (in[2].isNil /\ RecordLocked("m1", "glm", unfiltered, in[1], in[2])) =>
         VariantOf(providerModelHealth'["glm"], unfiltered).LastModelsCount
           = ClaimedBaseModelCount("glm", in[1])]_vars

\* The status table, in its order of evaluation.
ClaimedStatus(st, t) ==
  CASE st.LastAttemptAt = 0 -> "unknown"
    [] st.LastAttemptAt # 0 /\ st.LastErrorAt # 0
       /\ (st.LastSuccessAt = 0 \/ st.LastErrorAt >= st.LastSuccessAt) -> "error"
    [] OTHER ->
         IF st.LastSuccessAt = 0 THEN "unknown"
         ELSE IF t - st.LastSuccessAt > StaleAfter THEN "stale"
         ELSE "healthy"

\* C5: a recording with a non-nil error sets LastAttemptAt and LastErrorAt to
\* the current time and LastError to the extracted message, and leaves
\* LastSuccessAt and LastModelsCount as they were, whatever model data came
\* with the error.
C5_ErrorRecording ==
  [][\A unfiltered \in BOOLEAN, in \in RecordInputs :
       (~in[2].isNil /\ RecordLocked("m1", "glm", unfiltered, in[1], in[2])) =>
         LET old == VariantOf(HealthOf("glm"), unfiltered)
             new == VariantOf(providerModelHealth'["glm"], unfiltered)
         IN /\ new.LastAttemptAt = now
            /\ new.LastErrorAt = now
            /\ new.LastError = ClaimedErrorMessage(in[2])
            /\ new.LastSuccessAt = old.LastSuccessAt
            /\ new.LastModelsCount = old.LastModelsCount]_vars

\* An error recorded after a success that counted two models: the success
\* time and the count are kept, the message is the wrapped error's text.
C5_Witness ==
  /\ "glm" \in DOMAIN providerModelHealth
  /\ hist[<<"glm", FALSE>>].kind = "error"
  /\ hist[<<"glm", FALSE>>].err = ErrWrapped
  /\ providerModelHealth["glm"].Filtered.LastError = "dial tcp: timeout"
  /\ providerModelHealth["glm"].Filtered.LastSuccessAt = 1
  /\ providerModelHealth["glm"].Filtered.LastErrorAt = 2
  /\ providerModelHealth["glm"].Filtered.LastModelsCount = 2

\* C6: a recording with a nil error sets LastAttemptAt and LastSuccessAt to
\* the current time, clears LastErrorAt and LastError and sets LastModelsCount
\* from the response; a variant whose last recording is a success is healthy
\* or stale, never error, now and at any later time.
C6_SuccessStep ==
  \A unfiltered \in BOOLEAN, in \in RecordInputs :
    (in[2].isNil /\ RecordLocked("m1", "glm", unfiltered, in[1], in[2])) =>
      LET new == VariantOf(providerModelHealth'["glm"], unfiltered)
      IN /\ new.LastAttemptAt = now
         /\ new.LastSuccessAt = now
         /\ new.LastErrorAt = 0
         /\ new.LastError = ""
         /\ new.LastModelsCount = ClaimedCount("glm", in[1])

C6_AfterSuccess ==
  \A unfiltered \in BOOLEAN :
    hist[<<"glm", unfiltered>>].kind = "success" =>
      \A t \in now..MaxTime :
        toProviderModelDiscoveryHealth(VariantOf(HealthOf("glm"), unfiltered), t).Status
          \in {"healthy", "stale"}

C6_SuccessRecording == [][C6_SuccessStep]_vars /\ []C6_AfterSuccess

\* A success recorded as the third recording of the variant, after an error.
C6_Witness ==
  /\ ver = 3
  /\ "glm" \in DOMAIN providerModelHealth
  /\ providerModelHealth["glm"].Unfiltered = ZeroDiscoveryState
  /\ hist[<<"glm", FALSE>>].kind = "success"
  /\ providerModelHealth["glm"].Filtered.LastSuccessAt = 3
  /\ providerModelHealth["glm"].Filtered.LastErrorAt = 0
  /\ providerModelHealth["glm"].Filtered.LastModelsCount = 1

\* C7: the status of a variant is the value of the ordered table on its
\* attempt state and the current time, and it is never degraded.
C7_StatusDerivation ==
  (probe.kind = "status" /\ probe.out # "") =>
    /\ probe.out = ClaimedStatus(probe.state, probe.t)
    /\ probe.out # "degraded"

\* The error row decided on equal timestamps.
C7_Witness ==
  /\ probe.kind = "status"
  /\ probe.state.LastAttemptAt = 2
  /\ probe.state.LastErrorAt = 2
  /\ probe.state.LastSuccessAt = 2
  /\ probe.out = "error"

ReportItemOf(report, provider) ==
  LET i == CHOOSE j \in DOMAIN report.Providers : report.Providers[j].Provider = provider
  IN report.Providers[i]
DiscoveryOf(item, unfiltered) ==
  IF unfiltered THEN item.UnfilteredDiscovery ELSE item.FilteredDiscovery

\* C8: when the most recent recording of a variant is an error made at or
\* after its last success, the variant, the provider and the report are
\* error, last_error is the message of that error, and the other variant has
\* the status of its own state.
C8_ErrorDominates ==
  \A provider \in Providers, unfiltered \in BOOLEAN :
    LET h == hist[<<provider, unfiltered>>] IN
    (h.kind = "error" /\ h.at >= h.succAt) =>
      \A t \in now..MaxTime :
        LET report == GetProviderModelSnapshotHealthReport(t)
            item == ReportItemOf(report, provider)
        IN /\ provider \in ReportProviderSet
           /\ DiscoveryOf(item, unfiltered).Status = "error"
           /\ DiscoveryOf(item, unfiltered).LastError = ClaimedErrorMessage(h.err)
           /\ item.Status = "error"
           /\ report.Status = "error"
           /\ DiscoveryOf(item, ~unfiltered).Status
                = ClaimedStatus(VariantOf(HealthOf(provider), ~unfiltered), t)

\* Scenario B: success on both variants, then an error on the filtered one;
\* the unfiltered variant stays healthy and the report is error.
C8_Witness ==
  /\ hist[<<"glm", FALSE>>].kind = "error"
  /\ hist[<<"glm", FALSE>>].succAt = 1
  /\ hist[<<"glm", TRUE>>].kind = "success"
  /\ ReportItemOf(GetProviderModelSnapshotHealthReport(now), "glm").UnfilteredDiscovery.Status = "healthy"
  /\ GetProviderModelSnapshotHealthReport(now).Status = "error"

\* C9: a variant with a success and no error at or after it is stale exactly
\* when the success is older than the threshold, and healthy otherwise (a
\* success exactly as old as the threshold is healthy).
C9_Staleness ==
  \A provider \in Providers, unfiltered \in BOOLEAN :
    LET st == VariantOf(HealthOf(provider), unfiltered)
        status == toProviderModelDiscoveryHealth(st, now).Status
    IN (st.LastSuccessAt # 0 /\ (st.LastErrorAt = 0 \/ st.LastErrorAt < st.LastSuccessAt)) =>
         /\ (now - st.LastSuccessAt > StaleAfter) => status = "stale"
         /\ (now - st.LastSuccessAt <= StaleAfter) => status = "healthy"

\* A success recorded at time 1 as the variant's last recording, seen when
\* the clock reads StaleAfter + 2: stale with no recording in between.
C9_Witness ==
  /\ hist[<<"glm", FALSE>>] = [kind |-> "success", at |-> 1, err |-> NoError, succAt |-> 1]
  /\ now = StaleAfter + 2
  /\ toProviderModelDiscoveryHealth(HealthOf("glm").Filtered, now).Status = "stale"
  /\ toProviderModelDiscoveryHealth(HealthOf("glm").Filtered, now - 1).Status = "healthy"

\* The merge table.
ClaimedMerge(a, b) ==
  CASE a = "error" \/ b = "error" -> "error"
    [] a # "error" /\ b # "error" /\ (a = "stale" \/ b = "stale") -> "stale"
    [] a = "unknown" /\ b = "unknown" -> "unknown"
    [] OTHER ->
         IF (a = "unknown") # (b = "unknown") THEN "degraded" ELSE "healthy"

\* C10: the merged status of every pair of variant statuses is the value of
\* the merge table, and swapping the two variants gives the same result.
C10_MergeTable ==
  (probe.kind = "merge" /\ probe.out # "") =>
    /\ probe.out = ClaimedMerge(probe.a, probe.b)
    /\ mergeProviderHealthStatus(probe.b, probe.a) = probe.out

\* Stale on one side and unknown on the other merge to stale.
C10_Witness ==
  /\ probe.kind = "merge"
  /\ probe.a = "unknown"
  /\ probe.b = "stale"
  /\ probe.out = "stale"

\* The overall status as a function of the statuses of the listed providers.
ClaimedReportStatus(statuses) ==
  IF statuses = {} THEN "unknown"
  ELSE IF "error" \in statuses THEN "error"
  ELSE IF "stale" \in statuses \/ "degraded" \in statuses THEN "degraded"
  ELSE IF "healthy" \in statuses THEN "healthy"
  ELSE "unknown"

\* C11: the report's overall status is unknown with no provider listed, else
\* error when a provider is error, else degraded when a provider is stale or
\* degraded, else healthy when a provider is healthy, else unknown; it is
\* never stale.
C11_ReportStatus ==
  \A t \in now..MaxTime :
    LET report == GetProviderModelSnapshotHealthReport(t)
        statuses == {report.Providers[i].Status : i \in DOMAIN report.Providers}
    IN /\ report.Status = ClaimedReportStatus(statuses)
       /\ report.Status # "stale"
       /\ (Len(report.Providers) = 0) = (ReportProviderSet = {})

\* A stale provider beside a healthy one: the report is degraded.
C11_Witness ==
  LET report == GetProviderModelSnapshotHealthReport(now) IN
  /\ Len(report.Providers) = 2
  /\ report.Providers[1].Status = "stale"
  /\ report.Providers[2].Status = "healthy"
  /\ report.Status = "degraded"

(* ==================== debounced persistence worker ==================== *)
Cap(n) == IF n < Debounce THEN n + 1 ELSE Debounce

\* persistProviderModelHealthState with a signal channel: the non-blocking
\* send, dropped when a signal is already queued.
SendSignal_Unbounded(signal) == IF signal = "empty" THEN "full" ELSE "overfull"

SendSignal(signal) == IF signal = "empty" THEN "full" ELSE signal

\* The rest of RecordProviderModelDiscoveryResult, line 135:
\* persistProviderModelHealthState of a caller whose update is done.  With no
\* signal channel the flush is synchronous: the payload is read here and
\* written in the caller's next step.
RecordPersist(m) ==
  /\ mpc[m] = "persist"
  /\ IF persistSignal = "nil"
     THEN /\ mpc' = [mpc EXCEPT ![m] = "sync_write"]
          /\ mflight' = [mflight EXCEPT ![m] =
               [isSet |-> TRUE, ver |-> ver, ended |-> FALSE,
                payload |-> IF persistCallback THEN EmptyMap
                            ELSE getPersistedProviderModelHealthState]]
          /\ flushLog' = [flushLog EXCEPT !.callbacks = IF persistCallback THEN @ + 1 ELSE @]
          /\ UNCHANGED <<persistSignal, callLog, clk>>
     ELSE /\ mpc' = [mpc EXCEPT ![m] = "idle"]
          /\ persistSignal' = SendSignal(persistSignal)
          /\ callLog' = [callLog EXCEPT !.retMax = IF callLog.callVer[m] > @
                                                    THEN callLog.callVer[m] ELSE @,
                                        !.dropped = @ \/ persistSignal = "full"]
          /\ clk' = [clk EXCEPT !.sinceCall = 0]
          /\ flushLog' = [flushLog EXCEPT
               !.burst = IF clk.sinceCall >= Debounce THEN 0 ELSE @,
               !.burstCalls = IF clk.sinceCall >= Debounce THEN 1 ELSE @ + 1,
               !.duringFlush = @ \/ wpc \in {"timer_flush", "timer_write"}]
          /\ UNCHANGED mflight
  /\ UNCHANGED <<catalogPools, providerModelHealth, catalogConfig, hydrated, lockVars, stopVars, now, stored,
                 workerVars, ver, hist, probe>>

\* persistProviderModelHealthStateNow called by the caller itself, second
\* half: the callback returns, or store.UpdateConfig returns with or without
\* an error; without a callback and a store nothing is written.
RecordSyncWrite(m, ok) ==
  /\ mpc[m] = "sync_write"
  /\ stored' = IF ok /\ ~persistCallback /\ configStore
               THEN Marshal(mflight[m].payload) ELSE stored
  /\ mflight' = [mflight EXCEPT ![m].ended = TRUE]
  /\ mpc' = [mpc EXCEPT ![m] = "idle"]
  /\ callLog' = [callLog EXCEPT !.retMax = IF callLog.callVer[m] > @
                                            THEN callLog.callVer[m] ELSE @]
  /\ UNCHANGED <<catalogPools, providerModelHealth, catalogConfig, hydrated, lockVars,
                 persistSignal, stopVars, now, workerVars, ver, hist, flushLog, clk, probe>>

\* The signal case's timer handling: NewTimer, or Stop, drain and Reset.
TimerRearm_KeepDeadline(t) ==
  IF ~t.created
  THEN [created |-> TRUE, active |-> TRUE, left |-> Debounce, c |-> FALSE]
  ELSE IF t.active THEN t
  ELSE [created |-> TRUE, active |-> TRUE, left |-> Debounce, c |-> FALSE]

TimerRearm_NoDrain(t) ==
  IF ~t.created
  THEN [created |-> TRUE, active |-> TRUE, left |-> Debounce, c |-> FALSE]
  ELSE [t EXCEPT !.active = TRUE, !.left = Debounce]

TimerRearm(t) ==
  IF ~t.created
  THEN [created |-> TRUE, active |-> TRUE, left |-> Debounce, c |-> FALSE]
  ELSE LET stopped == [t EXCEPT !.active = FALSE]
           drained == IF t.active THEN stopped ELSE [stopped EXCEPT !.c = FALSE]
       IN [drained EXCEPT !.active = TRUE, !.left = Debounce]

\* stopTimer: nothing for a nil timer; else Stop, and drain when Stop reports
\* the timer had already expired or been stopped.
stopTimer_Skip(t) == t

stopTimer(t) ==
  IF ~t.created THEN t
  ELSE IF t.active THEN [t EXCEPT !.active = FALSE]
  ELSE [t EXCEPT !.c = FALSE]

\* drainSignals: receive until the channel is empty; any signal sets pending.
drainSignals_DropPending(signal, pend) == [signal |-> "empty", pending |-> pend]

drainSignals_SetPending(signal, pend) == [signal |-> "empty", pending |-> TRUE]

drainSignals(signal, pend) ==
  IF signal = "full" THEN [signal |-> "empty", pending |-> TRUE]
  ELSE [signal |-> signal, pending |-> pend]

\* pending after the signal case.
SignalPending_Forget(pend) == pend

SignalPending(pend) == TRUE

\* case <-mc.providerModelHealthPersistSignal
WorkerSignal ==
  /\ wpc = "select"
  /\ persistSignal = "full"
  /\ persistSignal' = "empty"
  /\ pending' = SignalPending(pending)
  /\ timer' = TimerRearm(timer)
  /\ timerC' = TRUE
  /\ clk' = [clk EXCEPT !.sinceRecv = 0]
  /\ flushLog' = [flushLog EXCEPT !.failed = IF @ = "failed" THEN "signalled" ELSE @,
                                  !.lateSignal = @ \/ timer.c]
  /\ UNCHANGED <<catalogPools, providerModelHealth, catalogConfig, hydrated, lockVars, stopVars, now, stored,
                 mpc, mflight, wpc, inflight, ver, hist, callLog, probe>>

\* case <-timerC: flushPending begins a flush when pending is set; otherwise
\* timerC is set to nil at once.
WorkerTimer ==
  /\ wpc = "select"
  /\ timerC
  /\ timer.c
  /\ timer' = [timer EXCEPT !.c = FALSE]
  /\ IF pending
     THEN /\ wpc' = "timer_flush"
          /\ timerC' = timerC
          /\ flushLog' = [flushLog EXCEPT
               !.burst = @ + 1,
               !.early = @ \/ clk.sinceCall < Debounce,
               !.raced = @ \/ persistSignal = "full"]
     ELSE /\ wpc' = "select"
          /\ timerC' = FALSE
          /\ UNCHANGED flushLog
  /\ UNCHANGED <<catalogPools, providerModelHealth, catalogConfig, hydrated, lockVars, persistSignal, stopVars,
                 now, stored, mpc, mflight, pending, inflight, ver, hist, callLog, clk, probe>>

\* case <-ctx.Done() and case <-mc.done: drainSignals, then flushPending
\* begins the final flush when pending is set; otherwise stopTimer and return.
StopCase ==
  LET d == drainSignals(persistSignal, pending) IN
  /\ wpc = "select"
  /\ persistSignal' = d.signal
  /\ pending' = d.pending
  /\ IF d.pending
     THEN /\ wpc' = "final_flush"
          /\ timer' = timer
     ELSE /\ wpc' = "exited"
          /\ timer' = stopTimer(timer)
  /\ flushLog' = [flushLog EXCEPT
       !.stopHadWork = pending \/ persistSignal = "full",
       !.failed = IF @ = "failed" /\ persistSignal = "full" THEN "signalled" ELSE @]
  /\ UNCHANGED <<catalogPools, providerModelHealth, catalogConfig, hydrated, lockVars, stopVars, now, stored,
                 mpc, mflight, timerC, inflight, ver, hist, callLog, clk, probe>>

WorkerCtxDone == ctxDone /\ StopCase
WorkerDone == doneClosed /\ StopCase

\* persistProviderModelHealthStateNow, first half: the callback is invoked,
\* or the payload is built under the read lock.
WorkerFlushBegin ==
  /\ wpc \in {"timer_flush", "final_flush"}
  /\ wpc' = IF wpc = "timer_flush" THEN "timer_write" ELSE "final_write"
  /\ inflight' = [isSet |-> TRUE, ver |-> ver, ended |-> FALSE,
                  payload |-> IF persistCallback THEN EmptyMap
                              ELSE getPersistedProviderModelHealthState]
  /\ flushLog' = [flushLog EXCEPT
       !.finalCount = IF wpc = "final_flush" THEN @ + 1 ELSE @,
       !.callbacks = IF persistCallback THEN @ + 1 ELSE @,
       !.flushes = @ + 1]
  /\ UNCHANGED <<catalogPools, providerModelHealth, catalogConfig, hydrated, lockVars, persistSignal, stopVars,
                 now, stored, mpc, mflight, pending, timer, timerC, ver, hist, callLog,
                 clk, probe>>

\* flushPending: pending = false after persistProviderModelHealthStateNow,
\* which returns nothing.
PendingAfterFlush_KeepOnFailure(ok) == ~ok

PendingAfterFlush(ok) == FALSE

\* persistProviderModelHealthStateNow, second half: the callback returns, or
\* store.UpdateConfig returns with or without an error (a failure is only
\* logged).  Then pending = false, and timerC = nil (timer case) or stopTimer
\* and return (stop cases).
WorkerFlushEnd(ok) ==
  /\ wpc \in {"timer_write", "final_write"}
  /\ stored' = IF ok /\ ~persistCallback /\ configStore THEN Marshal(inflight.payload) ELSE stored
  /\ inflight' = [inflight EXCEPT !.ended = TRUE]
  /\ pending' = PendingAfterFlush(ok)
  /\ IF wpc = "timer_write"
     THEN /\ wpc' = "select"
          /\ timerC' = FALSE
          /\ timer' = timer
     ELSE /\ wpc' = "exited"
          /\ timerC' = timerC
          /\ timer' = stopTimer(timer)
  /\ flushLog' = [flushLog EXCEPT
       !.failed = IF ~ok /\ ~persistCallback /\ configStore THEN "failed" ELSE "no"]
  /\ UNCHANGED <<catalogPools, providerModelHealth, catalogConfig, hydrated, lockVars, persistSignal, stopVars,
                 now, mpc, mflight, ver, hist, callLog, clk, probe>>

\* The runtime delivers the expiry of an active timer on timer.C, at or after
\* its deadline.
TimerFire ==
  /\ timer.active
  /\ timer.left = 0
  /\ timer' = [timer EXCEPT !.active = FALSE, !.c = TRUE]
  /\ UNCHANGED <<catalogPools, providerModelHealth, catalogConfig, hydrated, lockVars, persistSignal, stopVars,
                 now, stored, mpc, mflight, wpc, pending, timerC, inflight, historyVars, probe>>

\* One tick of the monotonic clock.
Tick ==
  /\ timer' = IF timer.active /\ timer.left > 0 THEN [timer EXCEPT !.left = @ - 1] ELSE timer
  /\ clk' = [sinceCall |-> Cap(clk.sinceCall), sinceRecv |-> Cap(clk.sinceRecv)]
  /\ UNCHANGED <<catalogPools, providerModelHealth, catalogConfig, hydrated, lockVars, persistSignal, stopVars,
                 now, stored, mpc, mflight, wpc, pending, timerC, inflight,
                 ver, hist, callLog, flushLog, probe>>

\* cancel() of the worker's context, and close(mc.done).
StopRequested == ctxDone \/ doneClosed
Cancel ==
  /\ ~ctxDone
  /\ ctxDone' = TRUE
  /\ callLog' = IF StopRequested THEN callLog ELSE [callLog EXCEPT !.stopRet = callLog.retMax]
  /\ UNCHANGED <<catalogPools, providerModelHealth, catalogConfig, hydrated, lockVars, persistSignal, doneClosed,
                 now, stored, mpc, mflight, workerVars, ver, hist, flushLog, clk, probe>>
CloseDone ==
  /\ ~doneClosed
  /\ doneClosed' = TRUE
  /\ callLog' = IF StopRequested THEN callLog ELSE [callLog EXCEPT !.stopRet = callLog.retMax]
  /\ UNCHANGED <<catalogPools, providerModelHealth, catalogConfig, hydrated, lockVars, persistSignal, ctxDone,
                 now, stored, mpc, mflight, workerVars, ver, hist, flushLog, clk, probe>>

(* ---------------- specification: the worker with callers -------------- *)
\* startProviderModelHealthPersistWorker has run: the channel exists and the
\* worker waits in its select.  Persistence is a store or a callback.
InitWorker ==
  /\ InitCatalog
  /\ configStore \in BOOLEAN
  /\ persistCallback = ~configStore
  /\ persistSignal = "empty"
  /\ ctxDone = FALSE
  /\ doneClosed = FALSE
  /\ wpc = "select"
  /\ pending = FALSE
  /\ timer = NilTimer
  /\ timerC = FALSE
  /\ inflight = NoPayload
  /\ now = 1
  /\ probe = NoProbe

RecordWorker ==
  /\ ver < MaxCalls
  /\ \E m \in Mutators : RecordLocked(m, "glm", FALSE, Response(<<IdGlm5, IdGlm47, IdGlm5>>), NoError)
RecordLive ==
  /\ ver < MaxCalls
  /\ \E m \in Mutators, in \in HealthInputs : RecordLocked(m, "glm", FALSE, in[1], in[2])
PersistWorker == \E m \in Mutators : RecordPersist(m)
FlushEnd == \E ok \in BOOLEAN : WorkerFlushEnd(ok)
Worker == WorkerSignal \/ WorkerTimer \/ WorkerFlushBegin \/ FlushEnd

NextLive == RecordLive \/ PersistWorker \/ Worker \/ TimerFire \/ Tick
NextWorker ==
  \/ RecordWorker \/ PersistWorker \/ Worker \/ TimerFire \/ Tick
  \/ Cancel \/ CloseDone \/ WorkerCtxDone \/ WorkerDone

SpecWorker == InitWorker /\ [][NextWorker]_vars

\* No stop is requested; every started call returns, the worker, the timer
\* and the clock keep running.
SpecLive ==
  /\ InitWorker
  /\ [][NextLive]_vars
  /\ WF_vars(PersistWorker)
  /\ WF_vars(Worker)
  /\ WF_vars(TimerFire)
  /\ WF_vars(Tick)

(* ===================== claims: persistence worker ===================== *)
AllIdle == \A m \in Mutators : mpc[m] = "idle"

\* The worker waits in its select with nothing to do and no stop requested.
Quiet ==
  /\ ~StopRequested
  /\ ver > 0
  /\ AllIdle
  /\ wpc = "select"
  /\ ~pending
  /\ persistSignal = "empty"

C2_NoLostMutation ==
  (wpc = "exited" /\ callLog.stopRet > 0) =>
    /\ inflight.isSet
    /\ inflight.ver >= callLog.stopRet

\* Two calls returned before the stop, the signal of one of them dropped; the
\* final flush read both updates.
C2_Witness ==
  /\ wpc = "exited"
  /\ callLog.dropped
  /\ callLog.stopRet = 2
  /\ flushLog.finalCount = 1
  /\ inflight.ver = 2

\* C3: the stop case leaves the signal channel empty; the worker exits with
\* one final flush when pending was set or a signal was queued and with none
\* otherwise, and with its timer stopped; after the exit it begins no flush,
\* writes nothing and stays exited.
C3_AtExit ==
  wpc = "exited" =>
    /\ flushLog.finalCount = (IF flushLog.stopHadWork THEN 1 ELSE 0)
    /\ ~timer.active

C3_Steps ==
  /\ (wpc = "select" /\ wpc' \in {"final_flush", "exited"}) => persistSignal' = "empty"
  /\ wpc = "exited" =>
       /\ wpc' = "exited"
       /\ inflight' = inflight
       /\ stored' = stored
       /\ flushLog'.finalCount = flushLog.finalCount

C3_StopFlushesOnce == []C3_AtExit /\ [][C3_Steps]_vars

\* The worker exited after a final flush, with a timer it had armed.
C3_Witness ==
  /\ wpc = "exited"
  /\ flushLog.stopHadWork
  /\ flushLog.finalCount = 1
  /\ timer.created
  /\ timer.left > 0
  /\ inflight.ended

\* The latest flush has ended and read the current state; nothing is pending
\* or queued.
Synced ==
  /\ wpc = "select"
  /\ ~pending
  /\ persistSignal = "empty"
  /\ inflight.isSet
  /\ inflight.ended
  /\ inflight.ver = ver
  /\ configStore => inflight.payload = getPersistedProviderModelHealthState

\* C4: when the calls cease after the v-th, the worker eventually completes a
\* flush of the state they left, with pending clear and the channel empty.
C4_EventuallyFlushed ==
  \A v \in 1..MaxCalls : (ver = v /\ AllIdle) ~> (ver # v \/ Synced)

\* Flushed although a call returned while a flush was in progress.
C4_Witness ==
  /\ Synced
  /\ AllIdle
  /\ ver = 2
  /\ flushLog.duringFlush

\* The store write of a flush has just failed and the worker has received no
\* dirty signal since: the worker has exited, or it waits in its select with
\* nothing pending, timerC nil and the timer not armed, so that the select
\* can take only a signal or a stop.
C25_AfterFailure ==
  flushLog.failed = "failed" =>
    /\ wpc \in {"select", "exited"}
    /\ ~pending
    /\ ~timer.active
    /\ wpc = "select" => ~timerC

\* The end of a write leaves the catalog as it is, and the store too when the
\* write failed; the timer flush leaves the timer as it is.  A flush that
\* begins reads the state as it is then.
C25_FlushSteps ==
  /\ (wpc \in {"timer_write", "final_write"} /\ wpc' # wpc) =>
       /\ ~pending'
       /\ CatalogView' = CatalogView
       /\ wpc = "timer_write" => timer' = timer /\ ~timerC'
       /\ flushLog'.failed = "failed" => stored' = stored
       /\ (flushLog'.failed = "no" /\ configStore /\ ~persistCallback) =>
            stored' = Marshal(inflight.payload)
  /\ (wpc \in {"timer_flush", "final_flush"} /\ wpc' # wpc) =>
       /\ flushLog.failed # "failed"
       /\ inflight'.ver = ver
       /\ (configStore /\ ~persistCallback) =>
            inflight'.payload = getPersistedProviderModelHealthState

\* The flush that follows a failed write reads a state newer than the one
\* the failed write had read.
C25_LaterMutation ==
  (wpc \in {"timer_flush", "final_flush"} /\ wpc' # wpc /\ flushLog.failed = "signalled") =>
    ver > inflight.ver

\* C25 as stated: after a failed store write the worker has pending clear and
\* its timer not re-armed, writes nothing more until a mutation later than
\* the failed write has raised a dirty signal, then writes the state as it is
\* then; the failure changes nothing in memory.
C25_NoRetry_Original ==
  []C25_AfterFailure /\ [][C25_FlushSteps /\ C25_LaterMutation]_vars

\* C25 amended: the same, the next write following the receipt of a dirty
\* signal, whether a later mutation raised it or it was raised before the
\* failed write read the state.
C25_NoRetry == []C25_AfterFailure /\ [][C25_FlushSteps]_vars

\* A write failed, the worker received a signal and its next flush has read
\* the state; the store still holds nothing.
C25_Witness ==
  /\ wpc = "timer_write"
  /\ flushLog.failed = "signalled"
  /\ configStore
  /\ inflight.ver = 2
  /\ ~inflight.ended
  /\ stored = EmptyValue

(* =============== specification: hydration, report, reload ============== *)
\* What store.GetAllProviderModelNames returns at start-up.
SnapshotResults ==
  { [err |-> TRUE, snapshots |-> EmptyMap],
    [err |-> FALSE, snapshots |-> [p \in {"glm", "minimax"} |->
                                     IF p = "glm" THEN <<"glm-5", "glm-4.7">> ELSE <<>>]] }

\* Persisted states written by an earlier run of the process.
StoredAttempt ==
  [Filtered |-> [LastAttemptAt |-> 1, LastSuccessAt |-> 1, LastErrorAt |-> 0,
                 LastError |-> "", LastModelsCount |-> 2],
   Unfiltered |-> ZeroDiscoveryState, LastSnapshotUpdated |-> 1,
   FilteredSource |-> ProviderModelSourceLiveDiscovery, UnfilteredSource |-> ""]
StoredSourceOnly ==
  [Filtered |-> ZeroDiscoveryState, Unfiltered |-> ZeroDiscoveryState,
   LastSnapshotUpdated |-> 0,
   FilteredSource |-> "", UnfilteredSource |-> ProviderModelSourceDefaultSeed]
StoredValue == Marshal([p \in {"glm", "minimax"} |->
                          IF p = "glm" THEN StoredAttempt ELSE StoredSourceOnly])
\* {"glm": {}}: an entry with no key.
StoredBareValue ==
  [empty |-> FALSE, valid |-> TRUE, entries |-> [p \in {"glm"} |-> EmptyMap]]

\* What store.GetConfig returns at start-up: an error (ErrNotFound or
\* another), a nil config, an empty value, a text that does not parse, a text
\* that does.
HealthConfigs ==
  { [kind |-> "not_found", value |-> EmptyValue],
    [kind |-> "error", value |-> EmptyValue],
    [kind |-> "nil", value |-> EmptyValue],
    [kind |-> "ok", value |-> EmptyValue],
    [kind |-> "ok", value |-> Malformed(StoredValue)],
    [kind |-> "ok", value |-> StoredValue],
    [kind |-> "ok", value |-> StoredBareValue] }

\* A catalog with a config store, its worker started and not yet scheduled;
\* the filtered pool is the one handed to the constructor.
InitStore ==
  /\ InitCatalog
  /\ configStore = TRUE
  /\ persistCallback = FALSE
  /\ persistSignal = "empty"
  /\ ctxDone = FALSE
  /\ doneClosed = FALSE
  /\ wpc = "select"
  /\ pending = FALSE
  /\ timer = NilTimer
  /\ timerC = FALSE
  /\ inflight = NoPayload
  /\ now = 1
  /\ probe = NoProbe

\* The reader and the reload hold no result.
ObserverIdle == rd = IdleReader /\ probe = NoProbe

\* GetProviderModelSnapshotHealthReport, the whole call under mc.mu.RLock().
Report(order) ==
  /\ rd.pc = "idle"
  /\ probe = NoProbe
  /\ rd' = [rd EXCEPT !.kind = "report", !.t = now,
                      !.report = [isSet |-> TRUE, value |-> HealthReportFrom(order, now)],
                      !.prev = rd.report,
                      !.cat = CatalogView, !.ver = ver]
  /\ UNCHANGED <<catalogPools, providerModelHealth, catalogConfig, hydrated, mu, mloc,
                 persistSignal, stopVars, now, stored, mpc, mflight, workerVars,
                 historyVars, probe>>

\* The payload of the current state is built and marshalled, and the text is
\* loaded by loadProviderModelHealthState into an empty catalog, of which the
\* payload is built again.
RoundTrip ==
  LET payload == getPersistedProviderModelHealthState
      value == Marshal(payload)
      loaded == HealthHydration(EmptyMap, EmptyMap, EmptyMap, [kind |-> "ok", value |-> value])
  IN /\ ObserverIdle
     /\ probe' = [kind |-> "roundtrip",
                  health |-> providerModelHealth, sources |-> providerModelSources,
                  usources |-> unfilteredProviderModelSources,
                  payload |-> payload, value |-> value, loaded |-> loaded,
                  again |-> PersistedStateOf(loaded.health, loaded.sources, loaded.usources)]
     /\ UNCHANGED <<catalogPools, providerModelHealth, catalogConfig, hydrated, lockVars,
                    persistSignal, stopVars, now, stored, mpc, mflight, workerVars,
                    historyVars>>

\* The reader and the reload drop their results.
Forget ==
  /\ ~ObserverIdle
  /\ rd' = IdleReader
  /\ probe' = NoProbe
  /\ UNCHANGED <<catalogPools, providerModelHealth, catalogConfig, hydrated, mu, mloc,
                 persistSignal, stopVars, now, stored, mpc, mflight, workerVars,
                 historyVars>>

Hydrated == hydrated.snapshots /\ hydrated.health

HydrateSnapshots ==
  /\ ObserverIdle
  /\ \E result \in SnapshotResults : loadProviderModelSnapshots(result)
  /\ UNCHANGED probe
HydrateHealth == ObserverIdle /\ \E result \in HealthConfigs : loadProviderModelHealthState(result)
RecordStore ==
  /\ ObserverIdle
  /\ Hydrated
  /\ ver < MaxCalls
  /\ \E unfiltered \in BOOLEAN, in \in HealthInputs :
       RecordLocked("m1", "minimax", unfiltered, in[1], in[2])
PersistStore == ObserverIdle /\ RecordPersist("m1")
SnapshotUpdated ==
  /\ ObserverIdle
  /\ Hydrated
  /\ ver < MaxCalls
  /\ mpc["m1"] = "idle"
  /\ updateProviderModelHealthSnapshotUpdatedAtLocked("glm")
ReportStore == Hydrated /\ ~rd.prev.isSet /\ \E order \in Orders(ReportProviderSet) : Report(order)

ClockStore == Hydrated /\ WallClockAdvance

NextStore ==
  \/ HydrateSnapshots \/ HydrateHealth \/ RecordStore \/ PersistStore \/ SnapshotUpdated
  \/ ClockStore \/ ReportStore \/ RoundTrip \/ Forget

SpecStore == InitStore /\ [][NextStore]_vars

(* ================== claims: report list and reload ==================== *)
\* The providers that are a key of one of the six maps of a view.
KeysOf(cat) ==
  DOMAIN cat.modelPool \cup DOMAIN cat.unfilteredModelPool
  \cup DOMAIN cat.providerModelSnapshots \cup DOMAIN cat.providerModelHealth
  \cup DOMAIN cat.providerModelSources \cup DOMAIN cat.unfilteredProviderModelSources

\* C12: a report lists exactly the providers that are a key of one of the six
\* maps, each once, in strictly ascending order, and the summary's total is
\* the number of providers listed.
C12_ProviderList ==
  rd.report.isSet =>
    LET items == rd.report.value.Providers IN
    /\ {items[i].Provider : i \in DOMAIN items} = KeysOf(rd.cat)
    /\ Len(items) = Cardinality(KeysOf(rd.cat))
    /\ \A i \in 1..(Len(items) - 1) : ProviderLess(items[i].Provider, items[i + 1].Provider)
    /\ rd.report.value.Summary.TotalProviders = Len(items)

\* A report of two providers: one known from the hydrated snapshot only, the
\* other from a recording only.
C12_Witness ==
  /\ rd.report.isSet
  /\ Len(rd.report.value.Providers) = 2
  /\ rd.report.value.Providers[1].Provider = "glm"
  /\ "glm" \notin DOMAIN rd.cat.providerModelHealth
  /\ "glm" \in DOMAIN rd.cat.providerModelSnapshots
  /\ DOMAIN rd.cat.providerModelHealth = {"minimax"}
  /\ "minimax" \notin DOMAIN rd.cat.modelPool
  /\ ver > 0

SameReportButTime(a, b) == [a EXCEPT !.GeneratedAt = 0] = [b EXCEPT !.GeneratedAt = 0]

\* The state has not changed since the reader's latest report.
Unmutated == rd.report.isSet /\ rd.cat = CatalogView /\ rd.ver = ver

\* No success of a variant is older than the threshold at one of the two
\* times and not at the other.
SameSideOfThreshold(t1, t2) ==
  \A p \in DOMAIN providerModelHealth, unfiltered \in BOOLEAN :
    LET s == VariantOf(providerModelHealth[p], unfiltered).LastSuccessAt IN
    s # 0 => ((t1 - s > StaleAfter) = (t2 - s > StaleAfter))

\* C13 as stated: a second report with no mutation since the first is the
\* first but for generated_at.
C13_RepeatableReport_Original ==
  [][\A order \in Orders(ReportProviderSet) :
       (Unmutated /\ Report(order)) =>
         SameReportButTime(rd'.report.value, rd.report.value)]_vars

\* C13 amended: the same, when no variant's last success crosses the
\* staleness threshold between the times of the two calls.
C13_RepeatableReport ==
  [][\A order \in Orders(ReportProviderSet) :
       (Unmutated /\ SameSideOfThreshold(rd.report.value.GeneratedAt, now) /\ Report(order)) =>
         SameReportButTime(rd'.report.value, rd.report.value)]_vars

\* Two reports of two providers at different times, both with a healthy
\* provider.
C13_Witness ==
  /\ rd.prev.isSet
  /\ rd.report.isSet
  /\ rd.prev.value.GeneratedAt < rd.report.value.GeneratedAt
  /\ Len(rd.report.value.Providers) = 2
  /\ rd.report.value.Summary.HealthyProviders = 1
  /\ SameReportButTime(rd.prev.value, rd.report.value)

\* An entry has a non-zero field.
NonZeroEntry(e) ==
  \/ \E v \in {e.Filtered, e.Unfiltered} :
       \/ v.LastAttemptAt # 0 \/ v.LastSuccessAt # 0 \/ v.LastErrorAt # 0
       \/ v.LastError # "" \/ v.LastModelsCount # 0
  \/ e.LastSnapshotUpdated # 0
  \/ e.FilteredSource # ""
  \/ e.UnfilteredSource # ""

\* C15: the payload holds exactly the providers, among the keys of the health
\* map and of the two source maps, whose record has a non-zero field, each
\* with the record of the maps.
C15_PayloadProviders ==
  probe.kind = "roundtrip" =>
    LET keys == DOMAIN probe.health \cup DOMAIN probe.sources \cup DOMAIN probe.usources
        Entry(p) == PersistedEntryOf(probe.health, probe.sources, probe.usources, p)
    IN /\ DOMAIN probe.payload = {p \in keys : NonZeroEntry(Entry(p))}
       /\ \A p \in DOMAIN probe.payload : probe.payload[p] = Entry(p)

\* A payload with a provider that has only source tags, without a provider
\* whose record is all zero, and (second witness) with a recorded attempt.
C15_Witness ==
  /\ probe.kind = "roundtrip"
  /\ DOMAIN probe.health = {"glm", "minimax"}
  /\ probe.health["glm"] = ZeroHealthState
  /\ "glm" \notin DOMAIN probe.sources
  /\ DOMAIN probe.payload = {"minimax"}
  /\ probe.payload["minimax"].Unfiltered.LastAttemptAt # 0
  /\ hist[<<"minimax", TRUE>>].kind # "none"

C15_WitnessSourceOnly ==
  /\ probe.kind = "roundtrip"
  /\ "glm" \notin DOMAIN probe.health
  /\ "glm" \in DOMAIN probe.payload
  /\ probe.payload["glm"].FilteredSource = ProviderModelSourcePersistedSnapshot

\* C16: the catalog reloaded from the payload's text has, for every provider
\* with a non-zero record, the record of the original; building the payload
\* again gives the same payload; a provider with an all-zero record is in
\* neither the payload nor the reloaded catalog.
C16_RoundTrip ==
  probe.kind = "roundtrip" =>
    LET Entry(p) == PersistedEntryOf(probe.health, probe.sources, probe.usources, p)
        Reloaded(p) == PersistedEntryOf(probe.loaded.health, probe.loaded.sources,
                                        probe.loaded.usources, p)
        reloadedKeys == DOMAIN probe.loaded.health \cup DOMAIN probe.loaded.sources
                        \cup DOMAIN probe.loaded.usources
    IN /\ \A p \in Providers :
            IF NonZeroEntry(Entry(p))
            THEN p \in DOMAIN probe.loaded.health /\ Reloaded(p) = Entry(p)
            ELSE p \notin DOMAIN probe.payload /\ p \notin reloadedKeys
       /\ probe.again = probe.payload

\* Reloaded: an error recorded for one provider, both source tags and a
\* snapshot time for the other, whose health record was otherwise zero.
C16_Witness ==
  /\ probe.kind = "roundtrip"
  /\ DOMAIN probe.loaded.health = {"glm", "minimax"}
  /\ probe.loaded.health["minimax"].Filtered.LastError = "provider list models failed"
  /\ probe.loaded.health["glm"].LastSnapshotUpdated = 2
  /\ probe.loaded.health["glm"].Filtered = ZeroDiscoveryState
  /\ probe.loaded.sources["glm"] = ProviderModelSourcePersistedSnapshot
  /\ "minimax" \notin DOMAIN probe.loaded.sources

\* C17: loadProviderModelHealthState changes none of the six maps when
\* GetConfig fails or finds no key, the config is nil, the value is empty, or
\* the value does not parse.
C17_LoadFailureSteps ==
  \A result \in HealthConfigs :
    (ResultLabel(result) # "loaded" /\ loadProviderModelHealthState(result)) =>
      CatalogView' = CatalogView

C17_LoadFailure == [][C17_LoadFailureSteps]_vars

\* A text that does not parse was handled on a catalog hydrated from the
\* snapshot store: the sources are those of the snapshot, no health entry.
C17_Witness ==
  /\ hydrated.outcome = "malformed"
  /\ hydrated.snapshots
  /\ providerModelHealth = EmptyMap
  /\ DOMAIN providerModelSources = {"glm"}
  /\ providerModelSources["glm"] = ProviderModelSourcePersistedSnapshot

(* ======= specification: every configuration, with or without worker ==== *)
\* A store, a callback, both or neither; the worker started, or (as in a
\* catalog built by newTestCatalog) no signal channel and no worker.
InitCatalogAny ==
  /\ InitCatalog
  /\ configStore \in BOOLEAN
  /\ persistCallback \in BOOLEAN
  /\ \/ persistSignal = "empty" /\ wpc = "select"
     \/ persistSignal = "nil" /\ wpc = "none"
  /\ ctxDone = FALSE
  /\ doneClosed = FALSE
  /\ pending = FALSE
  /\ timer = NilTimer
  /\ timerC = FALSE
  /\ inflight = NoPayload
  /\ now = 1
  /\ probe = NoProbe

SyncWrite == \E m \in Mutators, ok \in BOOLEAN : RecordSyncWrite(m, ok)

NextCatalogAny == NextWorker \/ SyncWrite

SpecCatalogAny == InitCatalogAny /\ [][NextCatalogAny]_vars

(* ===================== claim: persistence disabled ===================== *)
PersistenceDisabled == ~configStore /\ ~persistCallback

\* C18: with no store and no callback a recording updates the health state
\* and returns, sends no signal and writes nothing; no flush is ever begun,
\* by the caller or by a worker, and the store is never written.
C18_DisabledSteps ==
  \A m \in Mutators :
    (PersistenceDisabled
     /\ RecordLocked(m, "glm", FALSE, Response(<<IdGlm5, IdGlm47, IdGlm5>>), NoError)) =>
      /\ providerModelHealth'["glm"].Filtered.LastAttemptAt = now
      /\ providerModelHealth'["glm"].Filtered.LastSuccessAt = now
      /\ providerModelHealth'["glm"].Filtered.LastModelsCount = 2
      /\ mpc'[m] = "idle"
      /\ callLog'.retMax = ver + 1
      /\ persistSignal' = persistSignal
      /\ stored' = stored

C18_DisabledState ==
  PersistenceDisabled =>
    /\ persistSignal # "full"
    /\ ~pending
    /\ ~timer.created
    /\ ~inflight.isSet
    /\ \A m \in Mutators : mpc[m] = "idle" /\ ~mflight[m].isSet
    /\ flushLog.finalCount = 0
    /\ flushLog.burst = 0
    /\ stored = EmptyValue
    /\ wpc \in {"none", "select", "exited"}

C18_NoPersistence == []C18_DisabledState /\ [][C18_DisabledSteps]_vars

\* Two recordings with a worker that was then stopped: no flush at its exit.
C18_Witness ==
  /\ PersistenceDisabled
  /\ ver = 2
  /\ callLog.retMax = 2
  /\ wpc = "exited"
  /\ "glm" \in DOMAIN providerModelHealth
  /\ providerModelHealth["glm"].Filtered.LastModelsCount = 2

\* Two recordings on a catalog without a worker.
C18_WitnessNoWorker ==
  /\ PersistenceDisabled
  /\ ver = 2
  /\ callLog.retMax = 2
  /\ wpc = "none"
  /\ persistSignal = "nil"

(* ============ specification: the critical sections, step by step ======= *)
\* mc.mu.Lock() returns when no goroutine holds the lock; mc.mu.RLock() when
\* no writer holds it.
CanLock_Always(m) == TRUE

CanLock(m) == m.writer = "none" /\ m.readers = {}

CanRLock_Always(m) == TRUE

CanRLock(m) == m.writer = "none"

Lock(m, who) == [m EXCEPT !.writer = who]
Unlock(m, who) == [m EXCEPT !.writer = IF @ = who THEN "none" ELSE @]
RLock(m, who) == [m EXCEPT !.readers = @ \cup {who}]
RUnlock(m, who) == [m EXCEPT !.readers = @ \ {who}]

\* The deferred mc.mu.RUnlock() of getPersistedProviderModelHealthState: it
\* runs when that function returns, before the payload is marshalled.
PayloadRUnlock_AfterWrite(m, who) == m

PayloadRUnlock(m, who) == RUnlock(m, who)

\* RecordProviderModelDiscoveryResult, lines 113-130: Lock, time.Now, the
\* copy of the map entry and the update of the copy. The wall clock is seen
\* to have moved, or not, when a writer reads it: it reads t.
RecordLock(m, provider, unfiltered, modelData, discoveryErr, t) ==
  /\ mpc[m] = "idle"
  /\ Cardinality({x \in Mutators : mpc[x] \in {"locked", "assigned"}}) + ver < MaxCalls
  /\ t \in now..MaxTime
  /\ now' = t
  /\ CanLock(mu)
  /\ mu' = Lock(mu, m)
  /\ mpc' = [mpc EXCEPT ![m] = "locked"]
  /\ mloc' = [mloc EXCEPT ![m] =
       [provider |-> provider, unfiltered |-> unfiltered, err |-> discoveryErr,
        t |-> t, keys |-> {},
        state |-> RecordState(HealthOf(provider), provider, unfiltered, modelData,
                              discoveryErr, t)]]
  /\ UNCHANGED <<catalogPools, providerModelHealth, catalogConfig, hydrated, rd, persistSignal,
                 stopVars, stored, mflight, workerVars, historyVars, probe>>

\* Line 132: the copy is stored in the map.
RecordAssign(m) ==
  /\ mpc[m] = "locked"
  /\ providerModelHealth' = MapPut(providerModelHealth, mloc[m].provider, mloc[m].state)
  /\ mpc' = [mpc EXCEPT ![m] = "assigned"]
  /\ ver' = ver + 1
  /\ hist' = [hist EXCEPT ![<<mloc[m].provider, mloc[m].unfiltered>>] =
                HistAfter(@, mloc[m].err, mloc[m].t)]
  /\ callLog' = IF shouldPersistProviderModelHealthState
                THEN [callLog EXCEPT !.callVer[m] = ver + 1]
                ELSE [callLog EXCEPT !.retMax = ver + 1]
  /\ UNCHANGED <<catalogPools, catalogConfig, hydrated, lockVars, persistSignal, stopVars, now,
                 stored, mflight, workerVars, flushLog, clk, probe>>

\* Line 133: Unlock; then persistProviderModelHealthState returns at once
\* when persistence is disabled.
RecordUnlock(m) ==
  /\ mpc[m] = "assigned"
  /\ mu' = Unlock(mu, m)
  /\ mloc' = [mloc EXCEPT ![m] = NoLocals]
  /\ mpc' = [mpc EXCEPT ![m] = IF shouldPersistProviderModelHealthState THEN "persist" ELSE "idle"]
  /\ UNCHANGED <<catalogPools, providerModelHealth, catalogConfig, hydrated, rd, persistSignal,
                 stopVars, now, stored, mflight, workerVars, historyVars, probe>>

\* persistProviderModelHealthStateNow with a store and no channel:
\* getPersistedProviderModelHealthState takes the read lock and collects the
\* provider set,
PersistNowRLock(m) ==
  /\ mpc[m] = "persist"
  /\ persistSignal = "nil"
  /\ ~persistCallback
  /\ configStore
  /\ CanRLock(mu)
  /\ mu' = RLock(mu, m)
  /\ mpc' = [mpc EXCEPT ![m] = "payload"]
  /\ mloc' = [mloc EXCEPT ![m].keys =
       DOMAIN providerModelHealth \cup DOMAIN providerModelSources
       \cup DOMAIN unfilteredProviderModelSources]
  /\ UNCHANGED <<catalogPools, providerModelHealth, catalogConfig, hydrated, rd, persistSignal,
                 stopVars, now, stored, mflight, workerVars, historyVars, probe>>

\* builds the entries of the providers collected, leaving out the empty ones,
PersistNowBuild(m) ==
  LET kept == {p \in mloc[m].keys : ~isPersistedProviderModelHealthStateEmpty(PersistedEntry(p))} IN
  /\ mpc[m] = "payload"
  /\ mflight' = [mflight EXCEPT ![m] =
       [isSet |-> TRUE, ver |-> ver, ended |-> FALSE,
        payload |-> [p \in kept |-> PersistedEntry(p)]]]
  /\ mpc' = [mpc EXCEPT ![m] = "payload_built"]
  /\ UNCHANGED <<catalogPools, providerModelHealth, catalogConfig, hydrated, lockVars,
                 persistSignal, stopVars, now, stored, workerVars, historyVars, probe>>

\* and returns, releasing the read lock; the write that follows is
\* RecordSyncWrite.
PersistNowRUnlock(m) ==
  /\ mpc[m] = "payload_built"
  /\ mu' = PayloadRUnlock(mu, m)
  /\ mloc' = [mloc EXCEPT ![m] = NoLocals]
  /\ mpc' = [mpc EXCEPT ![m] = "sync_write"]
  /\ UNCHANGED <<catalogPools, providerModelHealth, catalogConfig, hydrated, rd, persistSignal,
                 stopVars, now, stored, mflight, workerVars, historyVars, probe>>

\* loadProviderModelSnapshots step by step, the store having returned one
\* provider with models: Lock (line 35),
SnapshotsLock ==
  /\ ~hydrated.snapshots
  /\ hydrated.step = 0
  /\ configStore
  /\ CanLock(mu)
  /\ mu' = Lock(mu, "h")
  /\ hydrated' = [hydrated EXCEPT !.step = 1]
  /\ UNCHANGED <<catalogPools, providerModelHealth, catalogConfig, rd, mloc, persistSignal,
                 stopVars, now, stored, mpc, mflight, workerVars, historyVars, probe>>

\* the five map writes of the loop body (lines 43-47), one at a time,
SnapshotsWrite(snapshots) ==
  LET after == SnapshotHydration(CatalogPoolsNow, snapshots)
      k == hydrated.step IN
  /\ k \in 1..5
  /\ hydrated' = [hydrated EXCEPT !.step = k + 1]
  /\ providerModelSnapshots' = IF k = 1 THEN after.providerModelSnapshots
                               ELSE providerModelSnapshots
  /\ modelPool' = IF k = 2 THEN after.modelPool ELSE modelPool
  /\ unfilteredModelPool' = IF k = 3 THEN after.unfilteredModelPool ELSE unfilteredModelPool
  /\ providerModelSources' = IF k = 4 THEN after.providerModelSources ELSE providerModelSources
  /\ unfilteredProviderModelSources' =
       IF k = 5 THEN after.unfilteredProviderModelSources ELSE unfilteredProviderModelSources
  /\ UNCHANGED <<providerModelHealth, catalogConfig, lockVars, persistSignal, stopVars, now,
                 stored, mpc, mflight, workerVars, historyVars, probe>>

\* and the deferred Unlock.
SnapshotsUnlock ==
  /\ hydrated.step = 6
  /\ mu' = Unlock(mu, "h")
  /\ hydrated' = [hydrated EXCEPT !.step = 0, !.snapshots = TRUE]
  /\ UNCHANGED <<catalogPools, providerModelHealth, catalogConfig, rd, mloc, persistSignal,
                 stopVars, now, stored, mpc, mflight, workerVars, historyVars, probe>>

\* The store writes of callers that are in flight: the caller and the version
\* of the state its payload was built from.
WritesInFlight == {<<m, mflight[m].ver>> : m \in {x \in Mutators : mpc[x] = "sync_write"}}

\* GetProviderModelSnapshotHealthReport step by step: time.Now (line 181),
ReportNow ==
  /\ rd.pc = "idle"
  /\ rd' = [rd EXCEPT !.pc = "now", !.kind = "report", !.t = now]
  /\ UNCHANGED <<catalogPools, providerModelHealth, catalogConfig, hydrated, mu, mloc,
                 persistSignal, stopVars, now, stored, mpc, mflight, workerVars,
                 historyVars, probe>>

\* RLock (line 183); cat, ver and overlap record what the catalog held and
\* which writes were in flight at that moment,
ReportRLock ==
  /\ rd.pc = "now"
  /\ CanRLock(mu)
  /\ mu' = RLock(mu, "r")
  /\ rd' = [rd EXCEPT !.pc = "keys", !.cat = CatalogView, !.ver = ver,
                      !.overlap = WritesInFlight]
  /\ UNCHANGED <<catalogPools, providerModelHealth, catalogConfig, hydrated, mloc,
                 persistSignal, stopVars, now, stored, mpc, mflight, workerVars,
                 historyVars, probe>>

\* the provider set collected and sorted (lines 184-210),
ReportKeys(order) ==
  /\ rd.pc = "keys"
  /\ rd' = [rd EXCEPT !.pc = "items", !.providers = SortSlice(order)]
  /\ UNCHANGED <<catalogPools, providerModelHealth, catalogConfig, hydrated, mu, mloc,
                 persistSignal, stopVars, now, stored, mpc, mflight, workerVars,
                 historyVars, probe>>

\* one pass of the loop over the providers,
ReportNextItem ==
  /\ rd.pc = "items"
  /\ Len(rd.items) < Len(rd.providers)
  /\ rd' = [rd EXCEPT !.items = Append(@, ReportItem(rd.providers[Len(@) + 1], rd.t))]
  /\ UNCHANGED <<catalogPools, providerModelHealth, catalogConfig, hydrated, mu, mloc,
                 persistSignal, stopVars, now, stored, mpc, mflight, workerVars,
                 historyVars, probe>>

\* RUnlock after the loop, then the report's status.
ReportRUnlock ==
  LET summary == ReportSummary(rd.items) IN
  /\ rd.pc = "items"
  /\ Len(rd.items) = Len(rd.providers)
  /\ mu' = RUnlock(mu, "r")
  /\ rd' = [rd EXCEPT !.pc = "done", !.cat = <<>>, !.ver = 0,
                      !.overlap = @ \cap WritesInFlight,
                      !.report = [isSet |-> TRUE, value |->
                        [Status |-> ReportStatus(summary), GeneratedAt |-> rd.t,
                         StaleAfterSeconds |-> StaleAfter, Summary |-> summary,
                         Providers |-> rd.items]]]
  /\ UNCHANGED <<catalogPools, providerModelHealth, catalogConfig, hydrated, mloc,
                 persistSignal, stopVars, now, stored, mpc, mflight, workerVars,
                 historyVars, probe>>

\* A pool getter: the read lock, a copy of the provider's list, the unlock.
PoolGetRLock(provider) ==
  /\ rd.pc = "idle"
  /\ CanRLock(mu)
  /\ mu' = RLock(mu, "r")
  /\ rd' = [rd EXCEPT !.pc = "pool", !.kind = "pool", !.providers = <<provider>>,
                      !.cat = CatalogView, !.ver = ver, !.overlap = WritesInFlight]
  /\ UNCHANGED <<catalogPools, providerModelHealth, catalogConfig, hydrated, mloc,
                 persistSignal, stopVars, now, stored, mpc, mflight, workerVars,
                 historyVars, probe>>

PoolGetRUnlock ==
  /\ rd.pc = "pool"
  /\ mu' = RUnlock(mu, "r")
  /\ rd' = [rd EXCEPT !.pc = "done", !.cat = <<>>, !.ver = 0,
                      !.overlap = @ \cap WritesInFlight,
                      !.items = <<MapGet(modelPool, rd.providers[1], <<>>)>>]
  /\ UNCHANGED <<catalogPools, providerModelHealth, catalogConfig, hydrated, mloc,
                 persistSignal, stopVars, now, stored, mpc, mflight, workerVars,
                 historyVars, probe>>

\* The reader's call has returned and its result is dropped.
ReaderReturn ==
  /\ rd.pc = "done"
  /\ rd' = IdleReader
  /\ UNCHANGED <<catalogPools, providerModelHealth, catalogConfig, hydrated, mu, mloc,
                 persistSignal, stopVars, now, stored, mpc, mflight, workerVars,
                 historyVars, probe>>

\* A catalog with a config store, with or without a callback, and no worker:
\* each caller flushes by itself.
InitLock ==
  /\ InitCatalog
  /\ configStore = TRUE
  /\ persistCallback \in BOOLEAN
  /\ persistSignal = "nil"
  /\ ctxDone = FALSE
  /\ doneClosed = FALSE
  /\ wpc = "none"
  /\ pending = FALSE
  /\ timer = NilTimer
  /\ timerC = FALSE
  /\ inflight = NoPayload
  /\ now = 1
  /\ probe = NoProbe

LockRecord ==
  \E m \in Mutators, unfiltered \in BOOLEAN, t \in {now, now + 1} :
    RecordLock(m, "glm", unfiltered, Response(<<IdGlm5>>), NoError, t)
LockRecordAssign == \E m \in Mutators : RecordAssign(m)
LockRecordUnlock == \E m \in Mutators : RecordUnlock(m)
LockPayloadRLock == \E m \in Mutators : PersistNowRLock(m)
LockPayloadBuild == \E m \in Mutators : PersistNowBuild(m)
LockPayloadRUnlock == \E m \in Mutators : PersistNowRUnlock(m)
LockSyncWrite == \E m \in Mutators : RecordSyncWrite(m, TRUE)
\* With a callback persistProviderModelHealthStateNow takes no lock.
LockCallback == persistCallback /\ \E m \in Mutators : RecordPersist(m)
LockReportKeys == \E order \in Orders(ReportProviderSet) : ReportKeys(order)
LockPoolGet == PoolGetRLock("glm")

NextReader ==
  \/ ReportNow \/ ReportRLock \/ LockReportKeys \/ ReportNextItem \/ ReportRUnlock
  \/ LockPoolGet \/ PoolGetRUnlock \/ ReaderReturn

NextLock ==
  \/ LockRecord \/ LockRecordAssign \/ LockRecordUnlock
  \/ LockPayloadRLock \/ LockPayloadBuild \/ LockPayloadRUnlock \/ LockCallback
  \/ LockSyncWrite
  \/ NextReader

SpecLock == InitLock /\ [][NextLock]_vars

\* The goroutines inside a section under the write lock, and under the read
\* lock.
WriteSections == {m \in Mutators : mpc[m] \in {"locked", "assigned"}}
                 \cup (IF hydrated.step > 0 THEN {"h"} ELSE {})
ReadSections == {m \in Mutators : mpc[m] \in {"payload", "payload_built"}}
                \cup (IF rd.pc \in {"keys", "items", "pool"} THEN {"r"} ELSE {})

\* C19: while a caller's store write or callback is in flight that caller
\* holds mc.mu neither for reading nor for writing, and the lock is held only
\* by goroutines inside their sections (the payload build, the update of a
\* recording, a report, a pool getter): a write in flight leaves the lock to
\* the recordings, the getters and the report, which can complete meanwhile.
C19_WriteOutsideLock ==
  /\ \A m \in Mutators : mpc[m] = "sync_write" => m \notin mu.readers /\ mu.writer # m
  /\ mu.writer \in {"none"} \cup WriteSections
  /\ mu.readers \subseteq ReadSections

\* A write was in flight when a report took the read lock and is still in
\* flight now that the report is complete, and a recording has updated the
\* state since that write's payload was built.
C19_Witness ==
  /\ rd.pc = "done"
  /\ rd.kind = "report"
  /\ Len(rd.report.value.Providers) > 0
  /\ \E w \in rd.overlap : w \in WritesInFlight /\ ver > w[2]

\* The same for a pool getter, the write being a callback.
C19_WitnessPool ==
  /\ rd.pc = "done"
  /\ rd.kind = "pool"
  /\ persistCallback
  /\ \E w \in rd.overlap : w \in WritesInFlight

(* ===== specification: readers against the writers' critical sections ==== *)
\* The callers' signals go to a worker that is not scheduled here; the
\* snapshots are hydrated while the callers and the reader run.
LockSignal == \E m \in Mutators : RecordPersist(m)
\* What store.GetAllProviderModelNames has returned.
LockSnapshots ==
  [p \in {"glm", "minimax"} |-> IF p = "glm" THEN <<"glm-5", "glm-4.7">> ELSE <<>>]
LockSnapshotsWrite == SnapshotsWrite(LockSnapshots)

NextTear ==
  \/ LockRecord \/ LockRecordAssign \/ LockRecordUnlock \/ LockSignal
  \/ SnapshotsLock \/ LockSnapshotsWrite \/ SnapshotsUnlock
  \/ NextReader

SpecTear == InitStore /\ [][NextTear]_vars

\* mc.mu is held by a writer alone or by readers only.
MutualExclusion == mu.writer = "none" \/ mu.readers = {}

\* Every recording made so far is in the health state with all its fields.
RecordingsWhole ==
  \A slot \in Slots :
    LET h == hist[slot]
        d == VariantOf(HealthOf(slot[1]), slot[2])
    IN h.kind # "none" =>
         /\ d.LastAttemptAt = h.at
         /\ d.LastSuccessAt = h.succAt
         /\ d.LastModelsCount = 1
         /\ d.LastError = ""

\* The five pool maps are as constructed or hold the whole hydration.
EmptyPools ==
  [modelPool |-> EmptyMap, unfilteredModelPool |-> EmptyMap,
   providerModelSnapshots |-> EmptyMap, providerModelSources |-> EmptyMap,
   unfilteredProviderModelSources |-> EmptyMap]
PoolsWhole ==
  CatalogPoolsNow = IF hydrated.snapshots THEN SnapshotHydration(EmptyPools, LockSnapshots)
                    ELSE EmptyPools

\* What holds while the reader is inside its read-locked section.
ReaderSeesWhole ==
  rd.pc \in {"keys", "items", "pool"} =>
    /\ WriteSections = {}
    /\ CatalogView = rd.cat
    /\ RecordingsWhole
    /\ PoolsWhole

\* The step that completes a report yields the report of the state as it is
\* at that step, for the time the call read.
ReportOfOneState ==
  rd.pc = "items" /\ rd'.pc = "done" =>
    rd'.report.value = GetProviderModelSnapshotHealthReport(rd.t)

FlushBeginStep ==
  \/ wpc \in {"timer_flush", "final_flush"} /\ wpc' # wpc
  \/ \E m \in Mutators : mpc[m] = "persist" /\ mpc'[m] = "sync_write"

\* With a callback a recording is followed by persistence, with or without a
\* store; each flush that begins invokes the callback once and nothing else
\* does; the store is never written.
C26_CallbackSteps ==
  /\ (persistCallback /\ ver' = ver + 1) => \E m \in Mutators : mpc'[m] = "persist"
  /\ flushLog'.callbacks =
       flushLog.callbacks + (IF persistCallback /\ FlushBeginStep THEN 1 ELSE 0)
  /\ persistCallback => stored' = stored

\* With a callback and the worker: the recordings of one burst cause one
\* invocation, not before the debounce interval has elapsed.
C26_Coalesced ==
  (persistCallback /\ persistSignal # "nil") =>
    /\ ~flushLog.early
    /\ flushLog.burst <= 1
    /\ Quiet => flushLog.burst = 1
    /\ (Quiet /\ flushLog.burstCalls = ver) => flushLog.callbacks = 1

StatusOK == "200"
StatusServiceUnavailable == "503"

\* HealthHandler.getModelCatalogHealth at time t; initialised is FALSE when
\* h.config or h.config.ModelCatalog is nil.  SendError sends the message,
\* SendJSONWithStatus the report.
getModelCatalogHealth_DegradedUnavailable(initialised, t) ==
  IF ~initialised
  THEN [statusCode |-> StatusServiceUnavailable, isReport |-> FALSE,
        body |-> "model catalog is not initialized"]
  ELSE LET report == GetProviderModelSnapshotHealthReport(t) IN
       [statusCode |-> IF report.Status \in {ProviderModelHealthError, ProviderModelHealthDegraded}
                       THEN StatusServiceUnavailable ELSE StatusOK,
        isReport |-> TRUE, body |-> report]

getModelCatalogHealth(initialised, t) ==
  IF ~initialised
  THEN [statusCode |-> StatusServiceUnavailable, isReport |-> FALSE,
        body |-> "model catalog is not initialized"]
  ELSE LET report == GetProviderModelSnapshotHealthReport(t) IN
       [statusCode |-> IF report.Status = ProviderModelHealthError
                       THEN StatusServiceUnavailable ELSE StatusOK,
        isReport |-> TRUE, body |-> report]

\* C27: the route answers service-unavailable exactly when the catalog is not
\* initialised or the report's overall status is error; for the overall
\* statuses healthy, degraded and unknown it answers success with the report
\* as body.
C27_Route ==
  \A initialised \in BOOLEAN, t \in now..MaxTime :
    LET response == getModelCatalogHealth(initialised, t)
        report == GetProviderModelSnapshotHealthReport(t)
    IN /\ response.statusCode \in {"200", "503"}
       /\ (response.statusCode = "503") = (~initialised \/ report.Status = "error")
       /\ (initialised /\ report.Status \in {"healthy", "degraded", "unknown"}) =>
            /\ response.statusCode = "200"
            /\ response.isReport
            /\ response.body = report
       /\ report.Status \in {"error", "healthy", "degraded", "unknown"}

\* A degraded report with a stale provider is answered with success.
C27_Witness ==
  LET response == getModelCatalogHealth(TRUE, now) IN
  /\ response.statusCode = "200"
  /\ response.body.Status = "degraded"
  /\ response.body.Summary.StaleProviders = 1
  /\ response.body.Summary.HealthyProviders = 1

\* An error report is answered with service-unavailable and the report.
C27_WitnessError ==
  LET response == getModelCatalogHealth(TRUE, now) IN
  /\ response.statusCode = "503"
  /\ response.isReport
  /\ response.body.Summary.ErrorProviders = 1
  /\ response.body.Summary.HealthyProviders = 1

(* ================= specification: the identity resolver ================ *)
\* Model strings: bare, prefixed, dated, with nothing after the delimiter,
\* with two delimiters.
IdGpt4o == <<"gpt-4o">>
IdGpt4oDated == <<"gpt-4o", "-", "2024-08-06">>
IdCustomDated == <<"my-custom-model", "-", "20250101">>
IdentityModels ==
  { <<>>, IdGpt4o, <<"openai", "/", "gpt-4o">>, <<"azure", "/", "gpt-4o">>,
    IdGpt4oDated, <<"openai", "/", "gpt-4o", "-", "2024-08-06">>,
    IdCustomDated, <<"my-custom-model">>, <<"openai", "/">>,
    <<"hf", "/", "org", "/", "gpt-4o">> }

\* The indexes of the tests: none, one that maps a dated name to its base,
\* one that keeps the date.
BaseModelIndexes ==
  { EmptyMap,
    [m \in {IdGpt4o, IdGpt4oDated} |-> IdGpt4o],
    [m \in {IdCustomDated} |-> IdCustomDated] }

InitIdentity ==
  /\ InitCatalog
  /\ InitNoWorker
  /\ configStore = FALSE
  /\ persistCallback = FALSE
  /\ now = 1
  /\ probe \in { [kind |-> "identity", index |-> i, a |-> a, b |-> b,
                  base |-> <<>>, same |-> FALSE] :
                 i \in BaseModelIndexes, a \in IdentityModels, b \in IdentityModels }

ApplyGetBaseModelName ==
  /\ probe.kind = "identity"
  /\ probe' = [probe EXCEPT !.kind = "base",
                            !.base = GetBaseModelNameIn(probe.index, probe.a)]
  /\ UNCHANGED <<catalogPools, providerModelHealth, catalogConfig, hydrated, lockVars,
                 persistSignal, stopVars, now, stored, mpc, mflight, workerVars, historyVars>>

ApplyIsSameModel ==
  /\ probe.kind = "identity"
  /\ probe' = [probe EXCEPT !.kind = "same",
                            !.same = IsSameModelIn(probe.index, probe.a, probe.b)]
  /\ UNCHANGED <<catalogPools, providerModelHealth, catalogConfig, hydrated, lockVars,
                 persistSignal, stopVars, now, stored, mpc, mflight, workerVars, historyVars>>

NextIdentity == ApplyGetBaseModelName \/ ApplyIsSameModel

SpecIdentity == InitIdentity /\ [][NextIdentity]_vars

\* The string after the first delimiter, or the whole string.
AfterPrefix(model) ==
  IF \E i \in DOMAIN model : model[i] = "/"
  THEN LET first == CHOOSE i \in DOMAIN model :
                      model[i] = "/" /\ \A j \in 1..(i - 1) : model[j] # "/"
       IN [i \in 1..(Len(model) - first) |-> model[first + i]]
  ELSE model

\* A string ends with a date-like suffix: a separator and a date.
Dated(s) == Len(s) >= 3 /\ s[Len(s) - 1] = "-" /\ s[Len(s)] \in {"20250101", "2024-08-06"}

\* C29: GetBaseModelName removes the prefix up to the first delimiter, returns
\* the index value of the remaining string as stored when it is a key, even
\* when the value is dated, and otherwise the remaining string without its
\* trailing date, or unchanged; the empty string gives the empty string.
C29_BaseName ==
  probe.kind = "base" =>
    LET working == AfterPrefix(probe.a) IN
    /\ probe.a = <<>> => probe.base = <<>>
    /\ (working # <<>> /\ working \in DOMAIN probe.index) =>
         probe.base = probe.index[working]
    /\ (working \notin DOMAIN probe.index /\ Dated(working)) =>
         probe.base = SubSeq(working, 1, Len(working) - 2)
    /\ (working \notin DOMAIN probe.index /\ ~Dated(working)) => probe.base = working
    /\ (probe.a = <<"openai", "/", "gpt-4o", "-", "2024-08-06">> /\ probe.index = EmptyMap) =>
         probe.base = <<"gpt-4o">>

\* The index keeps the date of a name that the suffix rule would strip.
C29_Witness ==
  /\ probe.kind = "base"
  /\ probe.a = IdCustomDated
  /\ IdCustomDated \in DOMAIN probe.index
  /\ probe.base = <<"my-custom-model", "-", "20250101">>

\* What IsSameModel answers in the catalog of the probe.
Same(x, y) == IsSameModelIn(probe.index, x, y)
Base(x) == GetBaseModelNameIn(probe.index, x)

\* The parts of the statement that do not mention empty inputs: the answer is
\* the equality of the base names, an equivalence that ignores prefixes and,
\* without an index entry, a trailing date.
C30_Equivalence ==
  probe.kind = "same" =>
    /\ probe.same = (Base(probe.a) = Base(probe.b))
    /\ \A x \in IdentityModels : Same(x, x)
    /\ \A x, y \in IdentityModels : Same(x, y) = Same(y, x)
    /\ \A x, y, z \in IdentityModels : (Same(x, y) /\ Same(y, z)) => Same(x, z)
    /\ Same(<<"openai", "/", "gpt-4o">>, <<"azure", "/", "gpt-4o">>)
    /\ Same(<<"openai", "/", "gpt-4o">>, IdGpt4o)
    /\ ~Same(IdGpt4o, <<"my-custom-model">>)
    /\ probe.index = EmptyMap => Same(IdCustomDated, <<"my-custom-model">>)
    /\ (probe.a = <<>> /\ probe.b = <<>>) => probe.same

C30_WitnessEmpty ==
  /\ probe.kind = "same"
  /\ probe.a = <<>>
  /\ probe.b = IdGpt4o
  /\ ~probe.same

(* ===================== specification: pool upserts ===================== *)
ProviderModelSourcePricingCatalog == "pricing_catalog"

getDefaultModelsForProvider_Nil(provider) == <<>>

\* getDefaultModelsForProvider: nil for a provider with no list.
getDefaultModelsForProvider(provider) ==
  IF provider \notin DOMAIN defaultProviderModels THEN <<>>
  ELSE defaultProviderModels[provider]

\* appendUniqueModels: the loop over candidates, carrying (target, seenModels).
RECURSIVE AppendLoop(_, _, _, _)
AppendLoop(target, candidates, i, seenModels) ==
  IF i > Len(candidates) THEN target
  ELSE IF candidates[i] \in seenModels
  THEN AppendLoop(target, candidates, i + 1, seenModels)
  ELSE AppendLoop(Append(target, candidates[i]), candidates, i + 1,
                  seenModels \cup {candidates[i]})

appendUniqueModels(target, candidates) ==
  IF Len(candidates) = 0 THEN target
  ELSE AppendLoop(target, candidates, 1, { target[i] : i \in DOMAIN target })

\* A string from its tokens.
RECURSIVE JoinTokens(_)
JoinTokens(tokens) == IF tokens = <<>> THEN "" ELSE Head(tokens) \o JoinTokens(Tail(tokens))

\* The live list of an upsert: the names of the entries of the provider, one
\* per base model, the first seen.
RECURSIVE LiveLoop(_, _, _, _, _)
LiveLoop(provider, data, i, out, seenBases) ==
  IF i > Len(data) THEN out
  ELSE LET parsed == ParseModelString(data[i], provider)
           base == GetBaseModelName(data[i]) IN
       IF parsed.provider # <<provider>> \/ base \in seenBases
       THEN LiveLoop(provider, data, i + 1, out, seenBases)
       ELSE LiveLoop(provider, data, i + 1, Append(out, JoinTokens(parsed.model)),
                     seenBases \cup {base})

LiveModels_KeepRepeats(provider, modelData) ==
  IF modelData.isNil THEN <<>>
  ELSE LET own == SelectSeq(modelData.Data,
                            LAMBDA id : ParseModelString(id, provider).provider = <<provider>>)
       IN [i \in DOMAIN own |-> JoinTokens(ParseModelString(own[i], provider).model)]

LiveModels(provider, modelData) ==
  IF modelData.isNil THEN <<>> ELSE LiveLoop(provider, modelData.Data, 1, <<>>, {})

\* The models of the pricing entries of a provider.
PricingModels(provider) == { e.Model : e \in { x \in pricingData : x.Provider = provider } }

\* The fallback tiers in order, the first that is not empty; priced lists the
\* pricing models of the provider in the order the map gave them.
FallbackTier(provider, priced) ==
  LET snapshot == MapGet(providerModelSnapshots, provider, <<>>)
      seed == appendUniqueModels(<<>>, getDefaultModelsForProvider(provider)) IN
  IF Len(snapshot) # 0
  THEN [found |-> TRUE, models |-> snapshot, source |-> ProviderModelSourcePersistedSnapshot]
  ELSE IF Len(priced) # 0
  THEN [found |-> TRUE, models |-> priced, source |-> ProviderModelSourcePricingCatalog]
  ELSE IF Len(seed) # 0
  THEN [found |-> TRUE, models |-> seed, source |-> ProviderModelSourceDefaultSeed]
  ELSE [found |-> FALSE, models |-> <<>>, source |-> ""]

persistProviderModelSnapshot_WriteEmpty(store, provider, models, ok) ==
  IF ~configStore THEN store
  ELSE IF ok THEN MapPut(store, provider, models) ELSE store

\* persistProviderModelSnapshot: nothing for an empty list or without a
\* store; a failed write is logged.
persistProviderModelSnapshot(store, provider, models, ok) ==
  IF Len(models) = 0 THEN store
  ELSE IF ~configStore THEN store
  ELSE IF ok THEN MapPut(store, provider, models) ELSE store

NoUpsert == [kind |-> "none"]

\* UpsertModelDataForProvider(provider, modelData, nil) and
\* UpsertUnfilteredModelDataForProvider(provider, modelData); t is the time
\* read when the snapshot is replaced, ok the outcome of the store write that
\* follows.
Upsert(provider, unfiltered, modelData, priced, t, ok) ==
  LET live == LiveModels(provider, modelData)
      tier == FallbackTier(provider, priced)
      models == IF Len(live) # 0 THEN live ELSE tier.models
      source == IF Len(live) # 0 THEN ProviderModelSourceLiveDiscovery ELSE tier.source
      tagged == Len(live) # 0 \/ tier.found
  IN
  /\ t \in now..MaxTime
  /\ (unfiltered /\ Len(live) # 0) \/ (t = now /\ ok)
  /\ now' = t
  /\ IF unfiltered
     THEN /\ unfilteredModelPool' = MapPut(unfilteredModelPool, provider, models)
          /\ unfilteredProviderModelSources' =
               IF tagged THEN MapPut(unfilteredProviderModelSources, provider, source)
               ELSE unfilteredProviderModelSources
          /\ UNCHANGED <<modelPool, providerModelSources>>
     ELSE /\ modelPool' = MapPut(modelPool, provider, models)
          /\ providerModelSources' =
               IF tagged THEN MapPut(providerModelSources, provider, source)
               ELSE providerModelSources
          /\ UNCHANGED <<unfilteredModelPool, unfilteredProviderModelSources>>
  /\ IF unfiltered /\ Len(live) # 0
     THEN /\ providerModelSnapshots' = MapPut(providerModelSnapshots, provider, live)
          /\ providerModelHealth' =
               MapPut(providerModelHealth, provider,
                      [HealthOf(provider) EXCEPT !.LastSnapshotUpdated = t])
     ELSE UNCHANGED <<providerModelSnapshots, providerModelHealth>>
  /\ snapshotStore' = IF unfiltered
                      THEN persistProviderModelSnapshot(snapshotStore, provider, live, ok)
                      ELSE snapshotStore
  /\ ver' = ver + 1
  /\ probe' = [kind |-> "upsert", provider |-> provider, unfiltered |-> unfiltered,
               modelData |-> modelData, wrote |-> ok]
  /\ UNCHANGED <<configStore, persistCallback, pricingData, mem, hydrated, lockVars, persistSignal,
                 stopVars, stored, mpc, mflight, workerVars, hist, callLog, flushLog, clk>>

\* The pricing dataset is loaded: its entries replace mc.pricingData.
LoadPricing(entries) ==
  /\ pricingData' = entries
  /\ UNCHANGED <<catalogPools, providerModelHealth, configStore, persistCallback, snapshotStore, mem,
                 hydrated, lockVars, persistSignal, stopVars, now, stored, mpc, mflight,
                 workerVars, historyVars, probe>>

\* Providers: one with a seed list, one with none.
UpsertProviders == {"glm", "zeta"}
IdZeta == <<"zeta", "/", "zeta-1">>

\* The responses of the listing call: no entry; entries of one provider, one
\* of them twice; entries of which two name one base model, and one of
\* another provider; an entry of the provider with no seed list.
UpsertResponses ==
  { Response(<<>>),
    Response(<<IdGlm5, IdGlm47, IdGlm5>>),
    Response(<<IdGlm47Dated, IdGlm47, IdMinimax>>),
    Response(<<IdZeta>>) }

PricingEntry(model, provider) == [Model |-> model, Provider |-> provider, Mode |-> "chat"]
PricingDatasets ==
  { {PricingEntry("glm-pricing-only", "glm")},
    {PricingEntry("glm-pricing-only", "glm"), PricingEntry("glm-5", "glm"),
     PricingEntry("gpt-4o", "openai")} }

InitUpsert ==
  /\ InitCatalog
  /\ InitNoWorker
  /\ configStore \in BOOLEAN
  /\ persistCallback = FALSE
  /\ now = 1
  /\ probe = NoUpsert

UpsertAny ==
  /\ ver < MaxCalls
  /\ \E provider \in UpsertProviders, unfiltered \in BOOLEAN, modelData \in UpsertResponses,
        t \in {now, now + 1}, ok \in BOOLEAN :
       \E priced \in Orders(PricingModels(provider)) :
         Upsert(provider, unfiltered, modelData, priced, t, ok)
UpsertHydrate ==
  /\ \E result \in SnapshotResults : loadProviderModelSnapshots(result)
  /\ UNCHANGED probe
UpsertLoadPricing ==
  /\ pricingData = {}
  /\ \E entries \in PricingDatasets : LoadPricing(entries)

NextUpsert == UpsertAny \/ UpsertHydrate \/ UpsertLoadPricing

SpecUpsert == InitUpsert /\ [][NextUpsert]_vars

(* ========================= claims: pool upserts ======================== *)
\* A step that is an upsert; probe' holds its arguments. A recording also
\* counts in ver, and notes its call in callLog.
UpsertStep == ver' = ver + 1 /\ callLog' = callLog /\ probe'.kind = "upsert"

\* The response carries an entry of the provider.
Usable(provider, modelData) ==
  /\ ~modelData.isNil
  /\ \E i \in DOMAIN modelData.Data :
       LET id == modelData.Data[i] IN Len(id) >= 3 /\ id[1] = provider /\ id[2] = "/"

Elems(list) == { list[i] : i \in DOMAIN list }

\* The pool and the tag of the upserted variant after the step, the snapshot
\* and the store after and before it.
PoolAfter == IF probe'.unfiltered THEN unfilteredModelPool'[probe'.provider]
             ELSE modelPool'[probe'.provider]
SourceAfter == IF probe'.unfiltered
               THEN MapGet(unfilteredProviderModelSources', probe'.provider, "")
               ELSE MapGet(providerModelSources', probe'.provider, "")
SnapshotOf(snapshots, provider) == MapGet(snapshots, provider, <<>>)

\* C21: an upsert, filtered or unfiltered, whose response has no usable
\* entry takes the pool from the first tier that is not empty: the snapshot,
\* then the pricing entries of the provider, then the default seed list. With
\* a snapshot the pool is the snapshot and holds no model only pricing or the
\* seed list has; with no snapshot and no pricing entry it holds the seed
\* models; the tag names the tier.
C21_FallbackTiers ==
  [][(UpsertStep /\ ~Usable(probe'.provider, probe'.modelData)) =>
       LET p == probe'.provider
           snapshot == SnapshotOf(providerModelSnapshots, p)
           priced == { e.Model : e \in { x \in pricingData : x.Provider = p } }
       IN
       /\ snapshot # <<>> =>
            /\ PoolAfter = snapshot
            /\ SourceAfter = "persisted_snapshot"
            /\ "glm-pricing-only" \notin Elems(PoolAfter)
            /\ "glm-z1-thinking" \notin Elems(PoolAfter)
       /\ (snapshot = <<>> /\ priced # {}) =>
            /\ Elems(PoolAfter) = priced
            /\ Len(PoolAfter) = Cardinality(priced)
            /\ SourceAfter = "pricing_catalog"
       /\ (snapshot = <<>> /\ priced = {} /\ p = "glm") =>
            /\ {"glm-5", "glm-4.7", "glm-z1-thinking"} \subseteq Elems(PoolAfter)
            /\ SourceAfter = "default_seed"
     ]_vars

\* A filtered upsert with an empty response, pricing loaded, a snapshot
\* hydrated: the pool is the snapshot.
C21_Witness ==
  /\ probe.kind = "upsert"
  /\ probe.provider = "glm"
  /\ ~probe.unfiltered
  /\ probe.modelData = Response(<<>>)
  /\ pricingData # {}
  /\ "glm" \in DOMAIN modelPool
  /\ modelPool["glm"] = <<"glm-5", "glm-4.7">>
  /\ providerModelSources["glm"] = "persisted_snapshot"

\* An unfiltered upsert with an empty response and nothing else known: the
\* pool is the seed list.
C21_WitnessSeed ==
  /\ probe.kind = "upsert"
  /\ probe.provider = "glm"
  /\ probe.unfiltered
  /\ pricingData = {}
  /\ "glm" \in DOMAIN unfilteredModelPool
  /\ "glm-z1-thinking" \in Elems(unfilteredModelPool["glm"])
  /\ unfilteredProviderModelSources["glm"] = "default_seed"

\* The entries of a response that belong to the provider and are the first of
\* their base model, and the names of a set of entries in response order.
OwnEntries(provider, data) ==
  { i \in DOMAIN data : Len(data[i]) >= 3 /\ data[i][1] = provider /\ data[i][2] = "/" }
EntryName(id) == SubSeq(id, 3, Len(id))
EntryBase(id) ==
  IF Dated(EntryName(id)) THEN SubSeq(EntryName(id), 1, Len(EntryName(id)) - 2)
  ELSE EntryName(id)
FirstSeen(provider, data) ==
  { i \in OwnEntries(provider, data) :
      \A j \in OwnEntries(provider, data) : j < i => EntryBase(data[j]) # EntryBase(data[i]) }
RECURSIVE NamesInOrder(_, _)
NamesInOrder(data, S) ==
  IF S = {} THEN <<>>
  ELSE LET first == CHOOSE i \in S : \A j \in S : i <= j
       IN <<JoinTokens(EntryName(data[first]))>> \o NamesInOrder(data, S \ {first})

\* C22: an upsert whose response has usable entries replaces the pool of its
\* variant by the names of the entries of the expected provider, one per base
\* model in first-seen order, and tags it live_discovery; no snapshot,
\* pricing or seed model enters it.
C22_LiveReplaces ==
  [][(UpsertStep /\ Usable(probe'.provider, probe'.modelData)) =>
       LET p == probe'.provider
           data == probe'.modelData.Data
       IN
       /\ PoolAfter = NamesInOrder(data, FirstSeen(p, data))
       /\ SourceAfter = "live_discovery"
       /\ "glm-pricing-only" \notin Elems(PoolAfter)
       /\ "glm-z1-thinking" \notin Elems(PoolAfter)
       /\ (p = "glm" /\ data = <<IdGlm5, IdGlm47, IdGlm5>>) => PoolAfter = <<"glm-5", "glm-4.7">>
       /\ IF probe'.unfiltered
          THEN UNCHANGED <<modelPool, providerModelSources>>
          ELSE UNCHANGED <<unfilteredModelPool, unfilteredProviderModelSources>>
     ]_vars

\* The filtered pool rebuilt from three entries, two of one model, while a
\* snapshot and pricing entries exist.
C22_Witness ==
  /\ probe.kind = "upsert"
  /\ probe.provider = "glm"
  /\ ~probe.unfiltered
  /\ probe.modelData = Response(<<IdGlm47Dated, IdGlm47, IdMinimax>>)
  /\ pricingData # {}
  /\ hydrated.snapshots
  /\ modelPool["glm"] = <<"glm-4.7-20250101">>
  /\ providerModelSources["glm"] = "live_discovery"

\* The start-up load of the snapshots.
HydrationStep == hydrated'.snapshots # hydrated.snapshots

\* Every list in a map of lists has a model.
NoEmptyList(lists) == \A p \in DOMAIN lists : lists[p] # <<>>

C23_SnapshotSteps ==
  /\ \A p \in UpsertProviders :
       SnapshotOf(providerModelSnapshots', p) # SnapshotOf(providerModelSnapshots, p) =>
         \/ HydrationStep
         \/ /\ UpsertStep
            /\ probe'.provider = p
            /\ probe'.unfiltered
            /\ Usable(p, probe'.modelData)
            /\ providerModelSnapshots'[p] =
                 NamesInOrder(probe'.modelData.Data, FirstSeen(p, probe'.modelData.Data))
  /\ (UpsertStep /\ probe'.unfiltered /\ Usable(probe'.provider, probe'.modelData)) =>
       /\ providerModelSnapshots'[probe'.provider] = PoolAfter
       /\ providerModelHealth'[probe'.provider].LastSnapshotUpdated = now'
       /\ now' > 0
  /\ (UpsertStep /\ ~(probe'.unfiltered /\ Usable(probe'.provider, probe'.modelData))) =>
       UNCHANGED <<providerModelSnapshots, snapshotStore>>
  /\ \A p \in UpsertProviders :
       SnapshotOf(providerModelSnapshots, p) # <<>> =>
         SnapshotOf(providerModelSnapshots', p) # <<>>
  /\ snapshotStore' # snapshotStore =>
       /\ UpsertStep
       /\ snapshotStore' = MapPut(snapshotStore, probe'.provider, PoolAfter)

GetModelsForProvider(provider) == MapGet(modelPool, provider, <<>>)
GetUnfilteredModelsForProvider(provider) == MapGet(unfilteredModelPool, provider, <<>>)

PoolGet(provider, unfiltered) ==
  /\ probe' = [kind |-> "get", provider |-> provider, unfiltered |-> unfiltered,
               models |-> IF unfiltered THEN GetUnfilteredModelsForProvider(provider)
                          ELSE GetModelsForProvider(provider)]
  /\ UNCHANGED <<catalogPools, providerModelHealth, catalogConfig, hydrated, lockVars,
                 persistSignal, stopVars, now, stored, mpc, mflight, workerVars, historyVars>>

\* RecordProviderModelDiscoveryResult for either provider, and the flush that
\* ends it when a store is configured.
AnyRecord ==
  /\ ver < MaxCalls
  /\ \E provider \in UpsertProviders, unfiltered \in BOOLEAN,
        discoveryErr \in {NoError, ErrNoField} :
       RecordLocked("m1", provider, unfiltered, Response(<<IdZeta>>), discoveryErr)
AnyPersist == RecordPersist("m1")
AnySyncWrite == \E ok \in BOOLEAN : RecordSyncWrite("m1", ok)
AnyUpsert ==
  /\ ver < MaxCalls
  /\ \E provider \in UpsertProviders, unfiltered \in BOOLEAN,
        modelData \in {Response(<<>>), Response(<<IdZeta>>)}, t \in {now, now + 1},
        ok \in BOOLEAN :
       Upsert(provider, unfiltered, modelData, <<>>, t, ok)
AnyGet == \E provider \in UpsertProviders, unfiltered \in BOOLEAN : PoolGet(provider, unfiltered)

NextAny == AnyRecord \/ AnyPersist \/ AnySyncWrite \/ AnyUpsert \/ AnyGet

SpecAny == InitUpsert /\ [][NextAny]_vars

(* ==================== claim: any provider identifier =================== *)
SourceTags ==
  {"pricing_catalog", "persisted_snapshot", "default_seed", "allowed_models",
   "live_discovery", "unknown"}

\* No seed list, no pricing entry, no snapshot and no live list.
NoData(provider) ==
  /\ provider # "glm"
  /\ \A e \in pricingData : e.Provider # provider
  /\ SnapshotOf(providerModelSnapshots, provider) = <<>>
  /\ MapGet(providerModelSources, provider, "") # "live_discovery"
  /\ MapGet(unfilteredProviderModelSources, provider, "") # "live_discovery"

C28_State ==
  \A p \in UpsertProviders :
    LET item == IF p \in ReportProviderSet
                THEN ReportItemOf(GetProviderModelSnapshotHealthReport(now), p)
                ELSE ReportItem(p, now)
        attempted(u) == hist[<<"glm", u>>].kind # "none"
    IN
    /\ (p \notin DOMAIN providerModelHealth) =>
         /\ item.FilteredDiscovery.Status = "unknown"
         /\ item.UnfilteredDiscovery.Status = "unknown"
         /\ item.Status = "unknown"
    /\ (p = "glm" /\ ~attempted(FALSE)) => item.FilteredDiscovery.Status = "unknown"
    /\ (p = "glm" /\ ~attempted(TRUE)) => item.UnfilteredDiscovery.Status = "unknown"
    /\ (p \notin DOMAIN providerModelSources) => item.FilteredSource = "unknown"
    /\ (p \notin DOMAIN unfilteredProviderModelSources) => item.UnfilteredSource = "unknown"
    /\ item.FilteredSource \in SourceTags
    /\ item.UnfilteredSource \in SourceTags
    /\ NoData(p) =>
         /\ GetModelsForProvider(p) = <<>>
         /\ GetUnfilteredModelsForProvider(p) = <<>>
         /\ item.FilteredModelCount = 0
         /\ item.UnfilteredModelCount = 0
         /\ item.SnapshotModelCount = 0

\* A recording of any provider leaves an attempt in its state; a getter
\* answers with the pool and changes nothing.
C28_Steps ==
  /\ \A p \in UpsertProviders :
       MapGet(providerModelHealth', p, ZeroHealthState) # MapGet(providerModelHealth, p, ZeroHealthState) =>
         \/ providerModelHealth'[p].Filtered.LastAttemptAt = now'
         \/ providerModelHealth'[p].Unfiltered.LastAttemptAt = now'
         \/ providerModelHealth'[p].LastSnapshotUpdated = now'
  /\ (probe' # probe /\ probe'.kind = "get") =>
       /\ probe'.models = IF probe'.unfiltered
                          THEN MapGet(unfilteredModelPool, probe'.provider, <<>>)
                          ELSE MapGet(modelPool, probe'.provider, <<>>)
       /\ NoData(probe'.provider) => probe'.models = <<>>
       /\ UNCHANGED <<catalogPools, providerModelHealth>>

\* C28: a provider identifier with no seed list, pricing entry or snapshot is
\* taken by the recording, the upserts and the getters like any other; with
\* no recorded attempt both variants are unknown, with no recorded source the
\* tag reported is unknown and never empty, and with no data the pools are
\* empty.
C28_AnyProvider == []C28_State /\ [][C28_Steps]_vars

\* The provider with no data after a recording, an upsert and a getter call.
C28_Witness ==
  /\ probe.kind = "get"
  /\ probe.provider = "zeta"
  /\ probe.models = <<>>
  /\ "zeta" \in DOMAIN modelPool
  /\ modelPool["zeta"] = <<>>
  /\ "zeta" \notin DOMAIN providerModelSources
  /\ "zeta" \in DOMAIN providerModelHealth
  /\ providerModelHealth["zeta"].Filtered.LastAttemptAt > 0
  /\ providerModelHealth["zeta"].Unfiltered.LastAttemptAt = 0

(* ====================== specification: list storage ==================== *)
slicesClone_Share(heap, a) == [heap |-> heap, addr |-> a]

\* slices.Clone: nil for nil (address 0), else a new array with the elements.
slicesClone(heap, a) ==
  IF a = 0 THEN [heap |-> heap, addr |-> 0]
  ELSE [heap |-> Append(heap, heap[a]), addr |-> Len(heap) + 1]

\* The lists of a map of arrays.
ValuesOf(heap, refs) == [p \in DOMAIN refs |-> heap[refs[p]]]

\* The loop of loadProviderModelSnapshots over the providers of the store's
\* answer, in the order the map gives them: the list read, its clone for the
\* snapshot, and a clone of that clone for each pool.
RECURSIVE HydrateLoop(_, _, _)
HydrateLoop(m, order, snapshots) ==
  IF order = <<>> THEN m
  ELSE LET provider == Head(order)
           models == Len(m.heap) + 1
           read == Append(m.heap, snapshots[provider])
           modelsClone == slicesClone(read, models)
           forPool == slicesClone(modelsClone.heap, modelsClone.addr)
           forUnfiltered == slicesClone(forPool.heap, modelsClone.addr)
       IN IF Len(snapshots[provider]) = 0 THEN HydrateLoop(m, Tail(order), snapshots)
          ELSE HydrateLoop([m EXCEPT !.heap = forUnfiltered.heap,
                                     !.snapshots = MapPut(@, provider, modelsClone.addr),
                                     !.pool = MapPut(@, provider, forPool.addr),
                                     !.upool = MapPut(@, provider, forUnfiltered.addr)],
                           Tail(order), snapshots)

StorageHydrate(result, order) ==
  LET after == SnapshotHydration(CatalogPoolsNow, result.snapshots) IN
  /\ ~hydrated.snapshots
  /\ configStore
  /\ ~result.err
  /\ hydrated' = [hydrated EXCEPT !.snapshots = TRUE]
  /\ mem' = HydrateLoop(mem, order, result.snapshots)
  /\ modelPool' = after.modelPool
  /\ unfilteredModelPool' = after.unfilteredModelPool
  /\ providerModelSnapshots' = after.providerModelSnapshots
  /\ providerModelSources' = after.providerModelSources
  /\ unfilteredProviderModelSources' = after.unfilteredProviderModelSources
  /\ UNCHANGED <<providerModelHealth, configStore, persistCallback, pricingData, snapshotStore,
                 lockVars, persistSignal, stopVars, now, stored, mpc, mflight, workerVars,
                 historyVars, probe>>

\* A getter call: the caller holds the array returned.
StorageReturn(what, provider, internal) ==
  LET c == slicesClone(mem.heap, internal) IN
  /\ Len(mem.heap) < MaxCells
  /\ mem' = [mem EXCEPT !.heap = c.heap, !.returned = @ \cup ({c.addr} \ {0})]
  /\ probe' = [kind |-> "got", what |-> what, provider |-> provider, addr |-> c.addr,
               models |-> IF c.addr = 0 THEN <<>> ELSE c.heap[c.addr]]
  /\ UNCHANGED <<catalogPools, providerModelHealth, configStore, persistCallback, pricingData,
                 snapshotStore, hydrated, lockVars, persistSignal, stopVars, now, stored, mpc,
                 mflight, workerVars, historyVars>>

\* getDefaultModelsForProvider(provider).
StorageGetDefault(provider) ==
  StorageReturn("default", provider,
                IF provider \notin DOMAIN mem.defaults THEN 0 ELSE mem.defaults[provider])

\* GetModelsForProvider(provider), GetUnfilteredModelsForProvider(provider).
StorageGetModels(provider, unfiltered) ==
  StorageReturn(IF unfiltered THEN "upool" ELSE "pool", provider,
                IF unfiltered THEN MapGet(mem.upool, provider, 0)
                ELSE MapGet(mem.pool, provider, 0))

\* The caller assigns to an element of a list it was given: models[i] =
\* "changed". Every list on that array shows it.
StorageAssign(a, i) ==
  LET heap == [mem.heap EXCEPT ![a][i] = "changed"] IN
  /\ a \in mem.returned
  /\ i \in DOMAIN mem.heap[a]
  /\ mem.heap[a][i] # "changed"
  /\ mem' = [mem EXCEPT !.heap = heap]
  /\ modelPool' = ValuesOf(heap, mem.pool)
  /\ unfilteredModelPool' = ValuesOf(heap, mem.upool)
  /\ providerModelSnapshots' = ValuesOf(heap, mem.snapshots)
  /\ UNCHANGED <<providerModelSources, unfilteredProviderModelSources, providerModelHealth,
                 configStore, persistCallback, pricingData, snapshotStore, hydrated, lockVars,
                 persistSignal, stopVars, now, stored, mpc, mflight, workerVars, historyVars,
                 probe>>

InitStorage ==
  /\ InitCatalog
  /\ InitNoWorker
  /\ configStore = TRUE
  /\ persistCallback = FALSE
  /\ now = 1
  /\ probe = NoUpsert

StorageHydrateAny ==
  \E result \in SnapshotResults :
    \E order \in Orders(DOMAIN result.snapshots) : StorageHydrate(result, order)
StorageGetDefaultAny == \E provider \in UpsertProviders : StorageGetDefault(provider)
StorageGetModelsAny ==
  \E provider \in UpsertProviders, unfiltered \in BOOLEAN : StorageGetModels(provider, unfiltered)
StorageAssignAny == \E a \in mem.returned : \E i \in {1, Len(mem.heap[a])} : StorageAssign(a, i)

NextStorage ==
  StorageHydrateAny \/ StorageGetDefaultAny \/ StorageGetModelsAny \/ StorageAssignAny

SpecStorage == InitStorage /\ [][NextStorage]_vars

(* ========================== claim: list storage ======================== *)
\* The arrays the catalog and the package use.
InternalRefs ==
  { mem.defaults[p] : p \in DOMAIN mem.defaults } \cup { mem.snapshots[p] : p \in DOMAIN mem.snapshots }
  \cup { mem.pool[p] : p \in DOMAIN mem.pool } \cup { mem.upool[p] : p \in DOMAIN mem.upool }
InternalCount ==
  Cardinality(DOMAIN mem.defaults) + Cardinality(DOMAIN mem.snapshots)
  + Cardinality(DOMAIN mem.pool) + Cardinality(DOMAIN mem.upool)

\* C24: the three getters return copies: an assignment to an element of a
\* returned list changes no pool, no snapshot and no built-in list, and no
\* later call returns it; the snapshot and the two pools set by hydration
\* have each their own array.
C24_Copies ==
  /\ mem.returned \cap InternalRefs = {}
  /\ Cardinality(InternalRefs) = InternalCount
  /\ \A a \in InternalRefs : "changed" \notin Elems(mem.heap[a])
  /\ mem.heap[mem.defaults["glm"]][1] = "glm-5"
  /\ \A p \in DOMAIN modelPool : "changed" \notin Elems(modelPool[p])
  /\ \A p \in DOMAIN unfilteredModelPool : "changed" \notin Elems(unfilteredModelPool[p])
  /\ \A p \in DOMAIN providerModelSnapshots : "changed" \notin Elems(providerModelSnapshots[p])
  /\ modelPool = ValuesOf(mem.heap, mem.pool)
  /\ unfilteredModelPool = ValuesOf(mem.heap, mem.upool)
  /\ providerModelSnapshots = ValuesOf(mem.heap, mem.snapshots)
  /\ probe.kind = "got" =>
       /\ "changed" \notin Elems(probe.models)
       /\ probe.what = "default" =>
            probe.models = IF probe.provider = "glm" THEN defaultProviderModels["glm"] ELSE <<>>

\* After hydration a caller changed the first element of a list it got from
\* GetModelsForProvider; the next call returned the models.
C24_Witness ==
  /\ hydrated.snapshots
  /\ probe.kind = "got"
  /\ probe.what = "pool"
  /\ probe.provider = "glm"
  /\ probe.models = <<"glm-5", "glm-4.7">>
  /\ \E a \in mem.returned :
       a # probe.addr /\ mem.heap[a] = <<"changed", "glm-4.7">>

\* The same for the built-in list.
C24_WitnessDefault ==
  /\ probe.kind = "got"
  /\ probe.what = "default"
  /\ probe.provider = "glm"
  /\ probe.models[1] = "glm-5"
  /\ \E a \in mem.returned :
       a # probe.addr /\ mem.heap[a][1] = "changed" /\ Len(mem.heap[a]) > 2

(* ============ specification: recordings under any wall clock =========== *)
\* time.Now().UTC() carries the wall-clock reading only, and the wall clock
\* can be set back between two calls.
WallClockStepBack ==
  /\ now > 1
  /\ now' = now - 1
  /\ UNCHANGED <<catalogPools, providerModelHealth, catalogConfig, hydrated, lockVars,
                 persistSignal, stopVars, stored, mpc, mflight, workerVars, historyVars, probe>>

RecordSkew ==
  \E unfiltered \in BOOLEAN, in \in HealthInputs :
    RecordLocked("m1", "glm", unfiltered, in[1], in[2])

NextSkew == RecordSkew \/ WallClockAdvance \/ WallClockStepBack

SpecSkew == InitRecord /\ [][NextSkew]_vars

(* ===================== claims: the attempt fields ===================== *)
\* C35: after recordings alone, a variant with an attempt has LastAttemptAt
\* equal to LastErrorAt when that is set and to LastSuccessAt otherwise, and
\* LastError is empty when LastErrorAt is zero; so an attempt with neither
\* a success nor an error does not occur, and a variant with an attempt is
\* never unknown.
C35_AttemptFields ==
  \A unfiltered \in BOOLEAN :
    LET st == VariantOf(HealthOf("glm"), unfiltered) IN
    /\ st.LastAttemptAt = 0 => st = ZeroDiscoveryState
    /\ st.LastAttemptAt # 0 =>
         /\ st.LastAttemptAt = IF st.LastErrorAt # 0 THEN st.LastErrorAt ELSE st.LastSuccessAt
         /\ ~(st.LastSuccessAt = 0 /\ st.LastErrorAt = 0)
         /\ \A t \in 1..MaxTime : toProviderModelDiscoveryHealth(st, t).Status # "unknown"
    /\ st.LastErrorAt = 0 => st.LastError = ""
    /\ (st.LastAttemptAt # 0) = (hist[<<"glm", unfiltered>>].kind # "none")

\* An error recorded after a success: both timestamps are set, the attempt is
\* the error's.
C35_Witness ==
  LET st == HealthOf("glm").Filtered IN
  /\ st.LastSuccessAt = 1
  /\ st.LastErrorAt = 2
  /\ st.LastAttemptAt = 2
  /\ st.LastError # ""

\* C38: a variant whose most recent recording is an error is reported as
\* error at every report time, whatever the clock read at the recordings:
\* also when the error has the timestamp of the preceding success, and when
\* the clock was set back so that the error's timestamp is the earlier one.
C38_ErrorWhateverClock ==
  \A unfiltered \in BOOLEAN :
    hist[<<"glm", unfiltered>>].kind = "error" =>
      \A t \in 1..MaxTime :
        /\ toProviderModelDiscoveryHealth(VariantOf(HealthOf("glm"), unfiltered), t).Status = "error"
        /\ DiscoveryOf(ReportItemOf(GetProviderModelSnapshotHealthReport(t), "glm"),
                       unfiltered).Status = "error"

(* ============= specification: recordings on a hydrated catalog ========= *)
FrameRecord ==
  /\ Hydrated
  /\ ver < MaxCalls
  /\ \E provider \in Providers, unfiltered \in BOOLEAN, in \in HealthInputs :
       RecordLocked("m1", provider, unfiltered, in[1], in[2])
FramePersist == RecordPersist("m1")
FrameSnapshotUpdated ==
  /\ Hydrated
  /\ ver < MaxCalls
  /\ mpc["m1"] = "idle"
  /\ \E provider \in Providers : updateProviderModelHealthSnapshotUpdatedAtLocked(provider)

NextFrame ==
  \/ HydrateSnapshots \/ HydrateHealth \/ FrameRecord \/ FramePersist
  \/ FrameSnapshotUpdated \/ ClockStore

SpecFrame == InitStore /\ [][NextFrame]_vars

(* ======================= claim: what a recording changes =============== *)
\* A step that is a recording, and one that sets LastSnapshotUpdated.
RecordingStep == ver' = ver + 1 /\ callLog' # callLog
SnapshotTimeStep == ver' = ver + 1 /\ callLog' = callLog

HealthAfter(provider) == MapGet(providerModelHealth', provider, ZeroHealthState)

\* The recording is of (p, v): nothing but the attempt fields of (p, v) differs.
OnlyVariantChanged(p, v) ==
  /\ \A slot \in Slots : hist'[slot] # hist[slot] => slot = <<p, v>>
  /\ VariantOf(HealthAfter(p), ~v) = VariantOf(HealthOf(p), ~v)
  /\ HealthAfter(p).LastSnapshotUpdated = HealthOf(p).LastSnapshotUpdated
  /\ VariantOf(HealthAfter(p), v).LastAttemptAt = now
  /\ \A q \in Providers \ {p} :
       /\ HealthAfter(q) = HealthOf(q)
       /\ (q \in DOMAIN providerModelHealth') = (q \in DOMAIN providerModelHealth)
  /\ UNCHANGED <<catalogPools, stored, snapshotStore, pricingData>>

C36_Steps ==
  /\ RecordingStep => \E p \in Providers, v \in BOOLEAN : OnlyVariantChanged(p, v)
  /\ SnapshotTimeStep =>
       /\ \A q \in Providers :
            /\ HealthAfter(q).Filtered = HealthOf(q).Filtered
            /\ HealthAfter(q).Unfiltered = HealthOf(q).Unfiltered
       /\ \E p \in Providers :
            /\ HealthAfter(p).LastSnapshotUpdated = now
            /\ \A q \in Providers \ {p} : HealthAfter(q) = HealthOf(q)
       /\ UNCHANGED <<catalogPools, stored, snapshotStore, pricingData>>

\* C36: a recording for provider p and variant v changes the attempt fields
\* of (p, v) and nothing else: not the other variant of p, not p's
\* LastSnapshotUpdated, not another provider's health, no pool, snapshot or
\* source tag; and setting LastSnapshotUpdated changes no attempt field.
C36_RecordingFrame == [][C36_Steps]_vars

\* On a hydrated catalog: an error on the filtered variant of a provider
\* whose unfiltered variant is healthy and whose LastSnapshotUpdated is set.
C36_Witness ==
  /\ Hydrated
  /\ "glm" \in DOMAIN providerModelHealth
  /\ hist[<<"glm", FALSE>>].kind = "error"
  /\ hist[<<"glm", TRUE>>].kind = "success"
  /\ toProviderModelDiscoveryHealth(providerModelHealth["glm"].Unfiltered, now).Status = "healthy"
  /\ toProviderModelDiscoveryHealth(providerModelHealth["glm"].Filtered, now).Status = "error"
  /\ providerModelHealth["glm"].LastSnapshotUpdated = 1
  /\ "glm" \in DOMAIN modelPool
  /\ providerModelSources["glm"] = "persisted_snapshot"

(* ================= specification: start-up hydration ================== *)
\* loadProviderModelSnapshots as the constructor calls it, and the upserts
\* that follow; probe keeps what store.GetAllProviderModelNames returned.
HydrationNoted ==
  \E result \in SnapshotResults :
    /\ loadProviderModelSnapshots(result)
    /\ probe' = [kind |-> "hydration", result |-> result]

\* The responses of the upserts, and one that names a model with and without
\* its provider prefix.
HydrationResponses == UpsertResponses \cup {Response(<<IdBare, IdGlm5, IdGlm47Dated>>)}

HydrationUpsert ==
  /\ ver < MaxCalls
  /\ \E provider \in UpsertProviders, unfiltered \in BOOLEAN, modelData \in HydrationResponses :
       \E priced \in Orders(PricingModels(provider)) :
         Upsert(provider, unfiltered, modelData, priced, now, TRUE)

NextHydration == HydrationUpsert \/ HydrationNoted \/ UpsertLoadPricing

SpecHydration == InitUpsert /\ [][NextHydration]_vars

(* ====================== claims: start-up hydration ===================== *)
\* The providers of the model.
HydrationProviders == UpsertProviders \cup {"minimax"}

\* The entry of a provider in a map is what it was.
EntryKept(before, after, p) ==
  /\ (p \in DOMAIN after) = (p \in DOMAIN before)
  /\ p \in DOMAIN before => after[p] = before[p]

\* The five entries of a provider are what they were.
ProviderUntouched(p) ==
  /\ EntryKept(modelPool, modelPool', p)
  /\ EntryKept(unfilteredModelPool, unfilteredModelPool', p)
  /\ EntryKept(providerModelSnapshots, providerModelSnapshots', p)
  /\ EntryKept(providerModelSources, providerModelSources', p)
  /\ EntryKept(unfilteredProviderModelSources, unfilteredProviderModelSources', p)

\* The five entries of a provider are the stored list and persisted_snapshot.
ProviderHydrated(p, list) ==
  /\ MapGet(modelPool', p, <<>>) = list
  /\ MapGet(unfilteredModelPool', p, <<>>) = list
  /\ MapGet(providerModelSnapshots', p, <<>>) = list
  /\ MapGet(providerModelSources', p, "") = "persisted_snapshot"
  /\ MapGet(unfilteredProviderModelSources', p, "") = "persisted_snapshot"

\* C39: hydration from the snapshot store sets, for every provider whose
\* stored list is not empty, the snapshot and both pools to the stored list
\* and both source tags to persisted_snapshot; a provider with an empty stored
\* list, or with none, keeps its entries; without a store, or when the
\* read fails, every provider keeps its entries.
C39_Steps ==
  HydrationStep =>
    LET result == probe'.result
        read == configStore /\ ~result.err
        lists == IF read THEN result.snapshots ELSE EmptyMap IN
    /\ probe'.kind = "hydration"
    /\ \A p \in HydrationProviders :
         IF p \in DOMAIN lists /\ lists[p] # <<>>
         THEN ProviderHydrated(p, lists[p])
         ELSE ProviderUntouched(p)
    /\ DOMAIN modelPool' \subseteq HydrationProviders
C39_Hydration == [][C39_Steps]_vars

\* A read that succeeded has been applied: glm holds its stored list, minimax,
\* whose stored list is empty, holds nothing.
C39_Witness ==
  /\ probe.kind = "hydration"
  /\ configStore
  /\ ~probe.result.err
  /\ "glm" \in DOMAIN providerModelSnapshots
  /\ providerModelSnapshots["glm"] = <<"glm-5", "glm-4.7">>
  /\ "minimax" \in DOMAIN probe.result.snapshots
  /\ "minimax" \notin DOMAIN modelPool

(* ========================= claims: no repeats ========================== *)
\* No name is at two positions of the list.
NoRepeats(list) == \A i, j \in DOMAIN list : list[i] = list[j] => i = j

C31_Steps ==
  /\ (wpc = "select" /\ wpc' = "exited") =>
       \/ ver = 0
       \/ inflight.isSet /\ inflight.ver = ver
  /\ (wpc = "final_flush" /\ wpc' = "final_write") => inflight'.ver = ver
C31_OverlapFlushed == [][C31_Steps]_vars

(* ====================== claims: debounce restart ======================= *)
\* The worker takes the signal case, and the timer case with pending set.
SignalCaseStep == wpc = "select" /\ wpc' = "select" /\ persistSignal = "full" /\ persistSignal' = "empty"
TimerFlushStep == wpc = "select" /\ wpc' = "timer_flush"

\* C32: every dirty signal the worker receives restarts the full debounce
\* interval, also when the timer has fired and its expiry is not handled yet
\* (the expiry is discarded); a flush on a timer expiry never begins less than
\* one debounce interval after the latest signal the worker received.
C32_Steps ==
  /\ SignalCaseStep =>
       /\ timer'.active
       /\ timer'.left = Debounce
       /\ ~timer'.c
       /\ timerC'
       /\ pending'
  /\ TimerFlushStep => clk.sinceRecv >= Debounce
C32_DebounceRestart == [][C32_Steps]_vars

\* Two calls; the signal of the second was received when the timer armed for
\* the first had fired, and the one flush that followed read both updates.
C32_Witness ==
  /\ flushLog.lateSignal
  /\ flushLog.burst = 1
  /\ wpc = "timer_write"
  /\ inflight.ver = 2
  /\ clk.sinceRecv >= Debounce

(* ======================= claims: spurious writes ======================= *)
\* The calls that have raised their dirty signal.
SignalsRaised == ver - Cardinality({m \in Mutators : mpc[m] = "persist"})

\* The worker takes the timer case.
TimerCaseStep ==
  /\ wpc = "select"
  /\ wpc' \in {"select", "timer_flush"}
  /\ timer.c
  /\ ~timer'.c
  /\ persistSignal' = persistSignal

\* C33 (states): the worker has begun no more flushes than there are calls
\* that raised a signal, so none without a mutation; it waits for an expiry
\* or is about to flush only with pending set.
C33_Counts ==
  /\ flushLog.flushes <= SignalsRaised
  /\ ver = 0 => ~inflight.isSet /\ stored = EmptyValue
  /\ (wpc = "select" /\ timerC) => pending
  /\ wpc \in {"timer_flush", "final_flush"} => pending

\* C33 (steps): pending is set only by receiving a signal and cleared only
\* at the end of a flush, so a flush follows a signal received since the
\* previous flush; a timer expiry the worker handles begins a flush, and
\* that flush is one write, after which the worker is back in its select.
C33_Steps ==
  /\ (~pending /\ pending') => (persistSignal = "full" /\ persistSignal' = "empty")
  /\ (pending /\ ~pending') => wpc \in {"timer_write", "final_write"}
  /\ TimerCaseStep => wpc' = "timer_flush"
  /\ (wpc = "timer_flush" /\ wpc' # wpc) =>
       wpc' = "timer_write" /\ flushLog'.flushes = flushLog.flushes + 1
  /\ (wpc = "timer_write" /\ wpc' # wpc) =>
       wpc' = "select" /\ ~pending' /\ ~timerC' /\ flushLog'.flushes = flushLog.flushes
  /\ flushLog'.flushes # flushLog.flushes =>
       /\ wpc \in {"timer_flush", "final_flush"}
       /\ flushLog'.flushes = flushLog.flushes + 1
       /\ inflight'.ver = ver
C33_NoSpuriousWrite == []C33_Counts /\ [][C33_Steps]_vars

\* Two calls raised their signals, one flush on a timer expiry wrote both
\* updates, the worker is back in its select with nothing pending, and the
\* stop that follows finds no work.
C33_Witness ==
  /\ wpc = "exited"
  /\ SignalsRaised = 2
  /\ flushLog.flushes = 1
  /\ flushLog.finalCount = 0
  /\ ~flushLog.stopHadWork
  /\ inflight.ver = 2
  /\ inflight.ended

(* ===================== claims: raising the signal ====================== *)
\* The recording of the worker model has been applied to the filtered state
\* of glm.
UpdateApplied ==
  LET state == HealthOf("glm").Filtered IN
  /\ hist[<<"glm", FALSE>>].kind = "success"
  /\ state.LastSuccessAt = hist[<<"glm", FALSE>>].at
  /\ state.LastAttemptAt = state.LastSuccessAt
  /\ state.LastModelsCount = 2

\* A caller returns from persistProviderModelHealthState.
ReturnStep(m) == mpc[m] = "persist" /\ mpc'[m] = "idle"

\* C34 (states): the channel holds no more than one signal, and a caller
\* whose update is done can take its next step, the return, whatever the
\* channel holds and wherever the worker is: waiting, in a write, exited.
C34_State ==
  /\ persistSignal \in {"empty", "full"}
  /\ \A m \in Mutators :
       mpc[m] = "persist" => UpdateApplied /\ ENABLED RecordPersist(m)

\* C34 (steps): the return leaves one signal in the channel and the update
\* in memory; it is a step of the caller alone.
C34_Steps ==
  \A m \in Mutators :
    ReturnStep(m) =>
      /\ persistSignal' = "full"
      /\ providerModelHealth' = providerModelHealth
      /\ UpdateApplied'
      /\ wpc' = wpc /\ pending' = pending /\ inflight' = inflight
C34_SignalNeverBlocks == []C34_State /\ [][C34_Steps]_vars

\* Both calls were made after the worker had exited: the first queued its
\* signal, the second found it queued, and both returned.
C34_Witness ==
  /\ wpc = "exited"
  /\ flushLog.flushes = 0
  /\ AllIdle
  /\ ver = 2
  /\ callLog.retMax = 2
  /\ callLog.stopRet = 0
  /\ callLog.dropped
  /\ persistSignal = "full"
  /\ UpdateApplied

\* A call returned while the worker was in the write of a flush.
C34_WitnessSlowWrite ==
  /\ wpc = "timer_write"
  /\ flushLog.duringFlush
  /\ AllIdle
  /\ inflight.ver = 1
  /\ ver = 2
  /\ persistSignal = "full"
  /\ UpdateApplied

(* ============ specification: synchronous flush, two callers ============ *)
\* A catalog with a config store and no worker: the signal channel is nil,
\* and every caller flushes by itself. Every store write succeeds.
InitSync ==
  /\ InitCatalog
  /\ InitNoWorker
  /\ configStore = TRUE
  /\ persistCallback = FALSE
  /\ now = 1
  /\ probe = NoProbe

SyncRecord ==
  \E m \in Mutators, provider \in {"glm", "minimax"}, in \in HealthInputs :
    RecordLocked(m, provider, FALSE, in[1], in[2])
SyncPersist == \E m \in Mutators : RecordPersist(m)
SyncWriteDone == \E m \in Mutators : RecordSyncWrite(m, TRUE)

NextSync == SyncRecord \/ SyncPersist \/ SyncWriteDone \/ WallClockAdvance

SpecSync == InitSync /\ [][NextSync]_vars

(* ====================== claims: synchronous flush ====================== *)
\* C37 (steps): a caller returns only from its own store write, of a payload
\* read after its update.
C37_Steps ==
  \A m \in Mutators :
    (mpc[m] # "idle" /\ mpc'[m] = "idle") =>
      /\ mpc[m] = "sync_write"
      /\ mflight[m].isSet
      /\ mflight[m].ver >= callLog.callVer[m]
      /\ stored' = Marshal(mflight[m].payload)

\* C37 (states): when every call has returned, the store holds the persisted
\* view of the in-memory state.
C37_Stored ==
  (AllIdle /\ ver > 0) => stored = Marshal(getPersistedProviderModelHealthState)

\* C37: with a nil signal channel every recording flushes before it returns,
\* and after concurrent calls have returned, all writes having succeeded,
\* the store holds the persisted view of the in-memory state.
C37_SyncFlush == []C37_Stored /\ [][C37_Steps]_vars
====
